---- MODULE Spec2Model ----
(***************************************************************************)
(* A state-machine model of the revenue API service (main.py): the key     *)
(* store, the usage ledger, the authorization gate, self-registration,     *)
(* admin key creation and the gated revenue / price-monitor operations.    *)
(*                                                                         *)
(* Every endpoint is an `async def` whose body contains no await between   *)
(* the gate and its store statements, so on the event loop a handler runs  *)
(* as one atomic step.  The usage-logging middleware resumes after         *)
(* `await call_next(request)`, so the append of the usage row is a         *)
(* separate, later step (Complete); other requests may run in between.     *)
(* For a request without a token that later part does nothing, and the     *)
(* request completes within the handler's step.                            *)
(*                                                                         *)
(* Time is the wall clock in seconds.  SQLite's CURRENT_TIMESTAMP and      *)
(* date() are UTC; Python's time.strftime() without a time tuple formats   *)
(* local time, so the process's UTC offset (tz) is part of the state.      *)
(***************************************************************************)
EXTENDS Integers, Sequences, FiniteSets, Bags, TLC

(* ------------------------------ bounds --------------------------------- *)

\* Number of HTTP requests that can be in flight at once.
MaxInFlight == 2
\* Largest number of rows the usage ledger grows to.
MaxUsage == 3
\* Number of clock advances in a behaviour.
MaxTicks == 3
\* Largest number of rows of revenue_streams / price_monitor_jobs.
MaxStreams == 1
MaxJobs == 1
\* Business requests are issued while the usage ledger and the requests in
\* flight together number fewer than this.
MaxBizUsage == 2
\* Largest number of rows of dashboard_subscriptions.
MaxSubscriptions == 1
\* Largest number of registrations the second server process is in the
\* middle of.
MaxRegistering == 1
\* Rows of the large market table and of the large learnings table: one more
\* than the caps the listings put on the limit parameter.
ManyMarkets == 101
ManyLearnings == 51
\* Gated listing requests (usage rows and requests in flight together).
MaxListUsage == 1

(* --------------------------- the wall clock ---------------------------- *)

\* Length of a calendar day, as time.strftime("%Y-%m-%d") and SQLite's
\* date() cut the time line.
SecondsPerDay == 24 * 60 * 60
\* The clock of a behaviour starts at 23:00 UTC of day 0 and advances in
\* steps of half an hour.
StartClock == 23 * 60 * 60
TickStep == 30 * 60
MaxClock == StartClock + MaxTicks * TickStep
\* UTC offsets of the process's local time zone, in seconds.
TzOffsets == {0 - 3600, 0, 3600}

(* ------------------------------ inputs --------------------------------- *)

\* Values of the X-API-Key header: absent, empty, or a token string.
NoHeader == "<absent>"
Tokens == {"sk_1", "sk_2"}
HeaderValues == Tokens \cup {NoHeader, ""}

\* Python truthiness of a header value (None and "" are falsy).
Truthy(h) == h \notin {NoHeader, ""}

\* Emails are sequences of characters.
EmailA == <<"a", "@", "b", ".", "c", "o">>
EmailB == <<"b", "@", "b", ".", "c", "o">>
EmailShort == <<"a", "@", "b">>
EmailNoTld == <<"a", "@", "b", ".", "c">>
EmailNoAt == <<"a", "b", ".", "c", "o", "m">>
EmailNewline == <<"a", "@", "b", ".", "c", "o", "\n">>
Emails == {EmailA, EmailB, EmailShort, EmailNoTld}

\* Source addresses of registration requests.
Addresses == {"10.0.0.1", "unknown"}

(* --------------------------- pure helpers ------------------------------ *)

\* Character classes of EMAIL_RE, restricted to the modelled alphabet.
Letters == {"a", "b", "c", "o", "m"}
Digits == {"0", "1"}
LocalChars == Letters \cup Digits \cup {".", "_", "%", "+", "-"}
DomainChars == Letters \cup Digits \cup {".", "-"}

\* ^[a-zA-Z0-9._%+-]+@[a-zA-Z0-9.-]+\.[a-zA-Z]{2,} up to the end of s.
EmailCore(s) ==
    \E i \in 1..Len(s), j \in 1..Len(s) :
        /\ i > 1
        /\ \A k \in 1..(i - 1) : s[k] \in LocalChars
        /\ s[i] = "@"
        /\ j > i + 1
        /\ \A k \in (i + 1)..(j - 1) : s[k] \in DomainChars
        /\ s[j] = "."
        /\ Len(s) - j >= 2
        /\ \A k \in (j + 1)..Len(s) : s[k] \in Letters

\* A pattern that asks for a dot in the domain and nothing of what follows it.
EMAIL_RE_any_tld(s) ==
    \E i \in 1..Len(s), j \in 1..Len(s) :
        /\ i > 1
        /\ s[i] = "@"
        /\ j > i + 1
        /\ s[j] = "."

\* EMAIL_RE.match(s): `$` also matches just before a trailing newline.
EMAIL_RE(s) ==
    \/ EmailCore(s)
    \/ /\ Len(s) > 0
       /\ s[Len(s)] = "\n"
       /\ EmailCore(SubSeq(s, 1, Len(s) - 1))

\* Field(min_length=5) of RegistrationRequest.email, AdminCreateKeyRequest.email
\* and PriceMonitorRequest.email: the framework answers 422 before the handler.
EmailFieldOk(s) == Len(s) >= 5

\* The calendar date (day number) of a UTC timestamp: SQLite date(created_at).
UTCDate(t) == t \div SecondsPerDay

\* html.escape(s): the five characters &, <, >, " and ' become entities.
EscapeChar(c) ==
    CASE c = "&" -> <<"&", "a", "m", "p", ";">>
      [] c = "<" -> <<"&", "l", "t", ";">>
      [] c = ">" -> <<"&", "g", "t", ";">>
      [] c = "\"" -> <<"&", "q", "u", "o", "t", ";">>
      [] c = "'" -> <<"&", "#", "x", "2", "7", ";">>
      [] OTHER -> <<c>>

RECURSIVE html_escape(_)
html_escape(s) ==
    IF s = <<>> THEN <<>> ELSE EscapeChar(Head(s)) \o html_escape(Tail(s))

\* An Optional[...] value is a set with at most one element ({} is None).
None == {}
Some(x) == {x}
Get(o) == CHOOSE x \in o : TRUE

(* ------------------------------- state --------------------------------- *)

VARIABLES
    now,                    \* the wall clock, seconds (UTC)
    tz,                     \* UTC offset of the process's local time
    emailSentCols,          \* api_keys has the columns email_sent, email_sent_at
    api_keys,               \* table api_keys: a set of rows (api_key is UNIQUE)
    api_usage_log,          \* table api_usage_log, in insertion order
    revenue_streams,        \* table revenue_streams, in insertion order (id = index)
    price_monitor_jobs,     \* table price_monitor_jobs, in insertion order
    registration_attempts,  \* _registration_attempts: address -> timestamps
    last,                   \* the request handled last and its response
    inflight,               \* bag of responses whose usage row is not yet written
    admitted,               \* history: requests the gate admitted, per token and UTC day
    peak,                   \* history: most requests of a token in flight at once
    passes,                 \* history: per address, the times within the last
                            \* 3600 seconds at which an attempt passed the rate check
    dashboard_subscriptions, \* table dashboard_subscriptions, in insertion order
    payments,               \* table payments of the payment service, in insertion order
    polymarket_markets,     \* table polymarket_markets, in rowid order
    learning_log,           \* table learning_log, in rowid order
    registering             \* a registration another server process is in the middle of

vars == <<now, tz, emailSentCols, api_keys, api_usage_log, revenue_streams,
          price_monitor_jobs, registration_attempts, last, inflight, admitted,
          peak, passes, dashboard_subscriptions, payments, polymarket_markets,
          learning_log, registering>>

store == <<api_keys, api_usage_log, revenue_streams, price_monitor_jobs>>
business == <<api_keys, revenue_streams, price_monitor_jobs, registration_attempts>>

Days == 0..UTCDate(MaxClock)

\* A key as the service stores it.
KeyRow(api_key, tier, email, daily_limit, monthly_limit) ==
    [api_key |-> api_key, tier |-> tier, customer_email |-> email,
     daily_limit |-> daily_limit, monthly_limit |-> monthly_limit,
     subscription_status |-> "active"]

\* A key issued earlier and revoked since (status is flipped outside this service).
RevokedSeed ==
    [KeyRow("sk_1", "basic", EmailA, 1, 30) EXCEPT !.subscription_status = "revoked"]

\* Key stores the service can start from: empty; a revoked key and an active
\* key of daily limit 1; two active keys of daily limits 1 and 2 (keys an
\* administrator created with a daily_limit override).
SeedStores ==
    {{},
     {RevokedSeed, KeyRow("sk_2", "basic", EmailB, 1, 30)},
     {KeyRow("sk_1", "basic", EmailA, 1, 30), KeyRow("sk_2", "pro", EmailB, 2, 60)}}

NoRequest == [op |-> "none", token |-> NoHeader, path |-> ""]
NoResp == [seq |-> 0, req |-> NoRequest, status |-> 0, detail |-> "",
           raised |-> FALSE, info |-> {}, count |-> 0 - 1]

Init ==
    /\ now = StartClock
    /\ tz \in TzOffsets
    /\ emailSentCols \in BOOLEAN
    /\ api_keys \in SeedStores
    /\ api_usage_log = <<>>
    /\ revenue_streams = <<>>
    /\ price_monitor_jobs = <<>>
    /\ registration_attempts = [a \in Addresses |-> <<>>]
    /\ last = NoResp
    /\ inflight = EmptyBag
    /\ admitted = [t \in Tokens |-> [d \in Days |-> 0]]
    /\ peak = [t \in Tokens |-> 0]
    /\ passes = [a \in Addresses |-> <<>>]
    /\ dashboard_subscriptions = <<>>
    /\ payments = <<>>
    /\ polymarket_markets = <<>>
    /\ learning_log = <<>>
    /\ registering = {}

(* ------------------------ the authorization gate ----------------------- *)

\* A lookup that forgets the status filter: a revoked key resolves too.
get_key_info_any_status(api_key) ==
    {k \in api_keys : k.api_key = api_key}

\* get_key_info: the active row of the token, if any (a set of at most one row).
get_key_info(api_key) ==
    {k \in api_keys : k.api_key = api_key /\ k.subscription_status = "active"}

\* today = time.strftime("%Y-%m-%d"): the date of the process's LOCAL time.
Today == (now + tz) \div SecondsPerDay

\* A count over the usage rows of every token.
UsageCount_all_tokens(api_key, today) ==
    Cardinality({i \in DOMAIN api_usage_log :
                    UTCDate(api_usage_log[i].created_at) = today})

\* SELECT COUNT(*) FROM api_usage_log WHERE api_key = ? AND date(created_at) = ?
UsageCount(api_key, today) ==
    Cardinality({i \in DOMAIN api_usage_log :
                    /\ api_usage_log[i].api_key = api_key
                    /\ UTCDate(api_usage_log[i].created_at) = today})

check_rate_limit(api_key, limit) == UsageCount(api_key, Today) < limit

\* get_auth: the HTTP error it raises, or status 200 with the key's info.
get_auth(x_api_key) ==
    IF ~Truthy(x_api_key)
    THEN [status |-> 401, detail |-> "Missing X-API-Key header", info |-> {},
          count |-> 0 - 1]
    ELSE IF get_key_info(x_api_key) = {}
    THEN [status |-> 403, detail |-> "Invalid API key", info |-> {},
          count |-> 0 - 1]
    ELSE LET row == Get(get_key_info(x_api_key))
             info == [tier |-> row.tier, name |-> row.customer_email,
                      daily_limit |-> row.daily_limit]
         IN  IF ~check_rate_limit(x_api_key, info.daily_limit)
             THEN [status |-> 429, detail |-> "Rate limit exceeded", info |-> {},
                   count |-> UsageCount(x_api_key, Today)]
             ELSE [status |-> 200, detail |-> "", info |-> {info},
                   count |-> UsageCount(x_api_key, Today)]

(* ------------------------- requests in flight -------------------------- *)

\* What the middleware keeps of a response until it writes the usage row.
Pending(req, r) ==
    [token |-> req.token, path |-> req.path, status |-> r.status,
     raised |-> r.raised]

\* Number of requests of token t in flight: handled, usage row not yet written.
InFlight(t) ==
    LET of == {e \in BagToSet(inflight) : e.token = t}
        RECURSIVE Sum(_)
        Sum(S) == IF S = {} THEN 0
                  ELSE LET e == CHOOSE x \in S : TRUE
                       IN  CopiesIn(e, inflight) + Sum(S \ {e})
    IN  Sum(of)

\* The handler has produced response r for request req; `last.seq` flips, so
\* that a step that handles a request always changes `last`.
Respond(req, r) ==
    /\ Truthy(req.token) =>
          /\ BagCardinality(inflight) < MaxInFlight
          /\ Len(api_usage_log) + BagCardinality(inflight) < MaxUsage
    /\ last' = [seq |-> 1 - last.seq, req |-> req, status |-> r.status,
                detail |-> r.detail, raised |-> r.raised, info |-> r.info,
                count |-> r.count]
    /\ inflight' = IF Truthy(req.token)
                   THEN inflight (+) SetToBag({Pending(req, r)})
                   ELSE inflight
    /\ peak' = [t \in Tokens |->
                  IF req.token = t /\ InFlight(t) + 1 > peak[t]
                  THEN InFlight(t) + 1 ELSE peak[t]]

\* A response that is not the gate's.
Reply(status, detail) ==
    [status |-> status, detail |-> detail, raised |-> FALSE, info |-> {},
     count |-> 0 - 1]
\* The handler raised an exception that is not an HTTPException: the server
\* answers 500 and call_next() re-raises it into the middleware.
Raise(detail) ==
    [status |-> 500, detail |-> detail, raised |-> TRUE, info |-> {},
     count |-> 0 - 1]
\* The gate's outcome as a response.
GateReply(auth) == auth @@ [raised |-> FALSE]

\* The gate admitted one more request of the token today (history only).
NoteAdmitted(token, auth) ==
    admitted' = IF auth.status = 200
                THEN [admitted EXCEPT ![token][UTCDate(now)] = @ + 1]
                ELSE admitted

(* ----------------------- gated business operations --------------------- *)

\* An enum that lets one more category in.
VALID_CATEGORIES_and_crypto == {"api", "product", "service", "consulting", "crypto"}
VALID_CATEGORIES == {"api", "product", "service", "consulting"}

\* Amounts are whole pounds; a growth rate is a number of tenths of a percent
\* (105 is 10.5), so that the rates the service is used with are integers.
\* Field constraints of RevenueStream; a body that breaks one is answered 422
\* by the framework before the handler (and so before the gate) runs.
RevenueStreamOk(stream) ==
    /\ Len(stream.name) >= 1
    /\ stream.monthly_revenue >= 0 /\ stream.monthly_revenue <= 1000000
    /\ stream.potential_monthly >= 0 /\ stream.potential_monthly <= 1000000
    /\ stream.growth_rate >= 0 - 1000 /\ stream.growth_rate <= 100000

\* Field constraints of RevenueStreamUpdate.
RevenueStreamUpdateOk(update) ==
    /\ \A v \in update.monthly_revenue : v >= 0 /\ v <= 1000000
    /\ \A v \in update.potential_monthly : v >= 0 /\ v <= 1000000
    /\ \A v \in update.growth_rate : v >= 0 - 1000 /\ v <= 100000

\* Field constraints of PriceMonitorRequest.
PriceMonitorRequestOk(r) ==
    /\ EmailFieldOk(r.email)
    /\ r.interval_hours >= 1 /\ r.interval_hours <= 720

BLOCKED_HOSTS == {"localhost", "127.0.0.1", "0.0.0.0", "169.254.169.254",
                  "[::1]", "metadata.google.internal"}

\* validate_url on a parsed URL: scheme, hostname, and how ipaddress classes
\* the hostname ("name" when it is no IP literal).
validate_url(url) ==
    /\ url.scheme \in {"http", "https"}
    /\ url.hostname # ""
    /\ url.hostname \notin BLOCKED_HOSTS
    /\ url.ip \notin {"private", "loopback", "link_local"}

Unprocessable == Reply(422, "validation error")

\* The row INSERT INTO revenue_streams stores: name and notes HTML-escaped,
\* empty notes stored as NULL.
StreamRow(stream) ==
    [name |-> html_escape(stream.name),
     category |-> stream.category,
     monthly_revenue |-> stream.monthly_revenue,
     potential_monthly |-> stream.potential_monthly,
     growth_rate |-> stream.growth_rate,
     notes |-> IF stream.notes = None \/ Get(stream.notes) = <<>>
               THEN None
               ELSE Some(html_escape(Get(stream.notes)))]

\* A handler that stores the stream before it asks the gate.
create_revenue_stream_before_gate(x_api_key, stream) ==
    LET req == [op |-> "create_revenue_stream", token |-> x_api_key,
                path |-> "/revenue/streams", stream |-> stream]
        auth == get_auth(x_api_key)
    IN  IF ~RevenueStreamOk(stream)
        THEN /\ Respond(req, Unprocessable)
             /\ UNCHANGED <<revenue_streams, admitted>>
        ELSE /\ Len(revenue_streams) < MaxStreams
             /\ revenue_streams' = Append(revenue_streams, StreamRow(stream))
             /\ NoteAdmitted(x_api_key, auth)
             /\ IF auth.status # 200
                THEN Respond(req, GateReply(auth))
                ELSE Respond(req, Reply(200, "Revenue stream created successfully"))

\* POST /revenue/streams
create_revenue_stream(x_api_key, stream) ==
    LET req == [op |-> "create_revenue_stream", token |-> x_api_key,
                path |-> "/revenue/streams", stream |-> stream]
        auth == get_auth(x_api_key)
    IN  IF ~RevenueStreamOk(stream)
        THEN /\ Respond(req, Unprocessable)
             /\ UNCHANGED <<revenue_streams, admitted>>
        ELSE IF auth.status # 200
        THEN /\ Respond(req, GateReply(auth))
             /\ UNCHANGED <<revenue_streams, admitted>>
        ELSE /\ NoteAdmitted(x_api_key, auth)
             /\ IF stream.category \notin VALID_CATEGORIES
                THEN /\ Respond(req, Reply(400, "Invalid category"))
                     /\ UNCHANGED revenue_streams
                ELSE /\ Len(revenue_streams) < MaxStreams
                     /\ revenue_streams' = Append(revenue_streams, StreamRow(stream))
                     /\ Respond(req, Reply(200, "Revenue stream created successfully"))

\* An update that rewrites the whole row: what is not supplied is reset.
UpdatedStream_whole_row(row, update) ==
    [row EXCEPT
        !.monthly_revenue = IF update.monthly_revenue = None THEN 0
                            ELSE Get(update.monthly_revenue),
        !.potential_monthly = IF update.potential_monthly = None THEN 0
                              ELSE Get(update.potential_monthly),
        !.growth_rate = IF update.growth_rate = None THEN 0
                        ELSE Get(update.growth_rate),
        !.notes = IF update.notes = None THEN None
                  ELSE Some(html_escape(Get(update.notes)))]

\* The row after UPDATE revenue_streams SET <supplied fields> WHERE id = ?
UpdatedStream(row, update) ==
    [row EXCEPT
        !.monthly_revenue = IF update.monthly_revenue = None THEN @
                            ELSE Get(update.monthly_revenue),
        !.potential_monthly = IF update.potential_monthly = None THEN @
                              ELSE Get(update.potential_monthly),
        !.growth_rate = IF update.growth_rate = None THEN @
                        ELSE Get(update.growth_rate),
        !.notes = IF update.notes = None THEN @
                  ELSE Some(html_escape(Get(update.notes)))]

\* request.url.path of PUT /revenue/streams/{stream_id}
StreamPath(stream_id) ==
    IF stream_id = 1 THEN "/revenue/streams/1" ELSE "/revenue/streams/2"

\* A handler that looks for the row before it looks at the fields.
update_revenue_stream_row_first(x_api_key, stream_id, update) ==
    LET req == [op |-> "update_revenue_stream", token |-> x_api_key,
                path |-> StreamPath(stream_id), stream_id |-> stream_id,
                update |-> update]
        auth == get_auth(x_api_key)
    IN  IF ~RevenueStreamUpdateOk(update)
        THEN /\ Respond(req, Unprocessable)
             /\ UNCHANGED <<revenue_streams, admitted>>
        ELSE IF auth.status # 200
        THEN /\ Respond(req, GateReply(auth))
             /\ UNCHANGED <<revenue_streams, admitted>>
        ELSE /\ NoteAdmitted(x_api_key, auth)
             /\ IF stream_id \notin DOMAIN revenue_streams
                THEN /\ Respond(req, Reply(404, "Revenue stream not found"))
                     /\ UNCHANGED revenue_streams
                ELSE IF update = [monthly_revenue |-> None, potential_monthly |-> None,
                                  growth_rate |-> None, notes |-> None]
                THEN /\ Respond(req, Reply(400, "No fields to update"))
                     /\ UNCHANGED revenue_streams
                ELSE /\ revenue_streams' =
                          [revenue_streams EXCEPT
                              ![stream_id] = UpdatedStream(@, update)]
                     /\ Respond(req, Reply(200, "Revenue stream updated successfully"))

\* PUT /revenue/streams/{stream_id}
update_revenue_stream(x_api_key, stream_id, update) ==
    LET req == [op |-> "update_revenue_stream", token |-> x_api_key,
                path |-> StreamPath(stream_id), stream_id |-> stream_id,
                update |-> update]
        auth == get_auth(x_api_key)
    IN  IF ~RevenueStreamUpdateOk(update)
        THEN /\ Respond(req, Unprocessable)
             /\ UNCHANGED <<revenue_streams, admitted>>
        ELSE IF auth.status # 200
        THEN /\ Respond(req, GateReply(auth))
             /\ UNCHANGED <<revenue_streams, admitted>>
        ELSE /\ NoteAdmitted(x_api_key, auth)
             /\ IF /\ update.monthly_revenue = None
                   /\ update.potential_monthly = None
                   /\ update.growth_rate = None
                   /\ update.notes = None
                THEN /\ Respond(req, Reply(400, "No fields to update"))
                     /\ UNCHANGED revenue_streams
                ELSE IF stream_id \notin DOMAIN revenue_streams
                THEN /\ Respond(req, Reply(404, "Revenue stream not found"))
                     /\ UNCHANGED revenue_streams
                ELSE /\ revenue_streams' =
                          [revenue_streams EXCEPT
                              ![stream_id] = UpdatedStream(@, update)]
                     /\ Respond(req, Reply(200, "Revenue stream updated successfully"))

\* POST /monitor/price
price_monitor(x_api_key, r) ==
    LET req == [op |-> "price_monitor", token |-> x_api_key,
                path |-> "/monitor/price"]
        auth == get_auth(x_api_key)
    IN  IF ~PriceMonitorRequestOk(r)
        THEN /\ Respond(req, Unprocessable)
             /\ UNCHANGED <<price_monitor_jobs, admitted>>
        ELSE IF auth.status # 200
        THEN /\ Respond(req, GateReply(auth))
             /\ UNCHANGED <<price_monitor_jobs, admitted>>
        ELSE /\ NoteAdmitted(x_api_key, auth)
             /\ IF ~EMAIL_RE(r.email)
                THEN /\ Respond(req, Reply(400, "Invalid email format"))
                     /\ UNCHANGED price_monitor_jobs
                ELSE IF ~validate_url(r.product_url)
                THEN /\ Respond(req, Reply(400, "Invalid or blocked URL"))
                     /\ UNCHANGED price_monitor_jobs
                ELSE /\ Len(price_monitor_jobs) < MaxJobs
                     /\ price_monitor_jobs' = Append(price_monitor_jobs,
                          [product_url |-> r.product_url, email |-> r.email,
                           interval_hours |-> r.interval_hours,
                           status |-> "pending"])
                     /\ Respond(req, Reply(200, "Price monitoring job created."))

\* The read-only gated operations (GET /revenue/summary, /revenue/streams,
\* /revenue/dashboard, /brain/*, /polymarket/markets, ...): the gate, then a
\* query that changes nothing.
read_only(x_api_key, path) ==
    LET req == [op |-> "read_only", token |-> x_api_key, path |-> path]
        auth == get_auth(x_api_key)
    IN  /\ Respond(req, GateReply(auth))
        /\ NoteAdmitted(x_api_key, auth)

(* ------------------------------ listings ------------------------------- *)

\* min(limit, 100) of get_polymarket_markets and min(limit, 50) of
\* brain_learnings.
MARKETS_LIMIT_CAP == 100
LEARNINGS_LIMIT_CAP == 50

\* A row of polymarket_markets, with the columns the listings filter and
\* order by (active is INTEGER DEFAULT 1 and may be NULL), and a row of
\* learning_log.
MarketRow(id, category, volume24h, active) ==
    [id |-> id, category |-> category, volume24h |-> volume24h, active |-> active]
LearningRow(id, category, created_at) ==
    [id |-> id, category |-> category, created_at |-> created_at]

\* Python truthiness of an optional string query parameter (`if category:`).
GivenCategory(category) == category # None /\ category # Some("")

\* A query whose category filter replaces the filter on active.
MarketsWhere_category_only(rows, category, active_only) ==
    IF GivenCategory(category)
    THEN SelectSeq(rows, LAMBDA r : r.category = category)
    ELSE IF active_only
    THEN SelectSeq(rows, LAMBDA r : r.active = Some(1))
    ELSE rows

\* The WHERE clause both market listings build: active = 1 when active_only,
\* category = ? when a category is given (NULL equals nothing).
MarketsWhere(rows, category, active_only) ==
    SelectSeq(rows, LAMBDA r :
        /\ active_only => r.active = Some(1)
        /\ GivenCategory(category) => r.category = category)

\* ORDER BY col DESC over a column with values in lo..hi (ties in rowid order).
RECURSIVE OrderByDesc(_, _, _, _)
OrderByDesc(rows, col, hi, lo) ==
    IF hi < lo THEN <<>>
    ELSE SelectSeq(rows, LAMBDA r : r[col] = hi) \o OrderByDesc(rows, col, hi - 1, lo)

\* min(a, b) of Python.
Min(a, b) == IF a < b THEN a ELSE b

\* LIMIT n of SQLite: a negative n sets no upper bound.
SqlLimit(rows, n) ==
    IF n < 0 THEN rows ELSE SubSeq(rows, 1, Min(n, Len(rows)))

\* Values of volume24h and of created_at in the tables of this model.
MaxVolume == 2
MaxCreatedAt == 1

\* The body both listings answer with.
Listing(rows) ==
    [Reply(200, "") EXCEPT !.info = {[rows |-> rows, count |-> Len(rows)]}]

\* GET /polymarket/markets of the main service.
get_polymarket_markets(x_api_key, limit, category, active_only) ==
    LET req == [op |-> "get_polymarket_markets", token |-> x_api_key,
                path |-> "/polymarket/markets", limit |-> limit,
                category |-> category, active_only |-> active_only]
        auth == get_auth(x_api_key)
        rows == SqlLimit(OrderByDesc(MarketsWhere(polymarket_markets, category, active_only),
                                     "volume24h", MaxVolume, 0),
                         Min(limit, MARKETS_LIMIT_CAP))
    IN  IF auth.status # 200
        THEN /\ Respond(req, GateReply(auth))
             /\ UNCHANGED admitted
        ELSE /\ NoteAdmitted(x_api_key, auth)
             /\ Respond(req, Listing(rows))

\* GET /markets of the standalone market service (no gate, no cap).
get_markets(limit, category, active_only) ==
    LET req == [op |-> "get_markets", token |-> NoHeader, path |-> "/markets",
                limit |-> limit, category |-> category, active_only |-> active_only]
        rows == SqlLimit(OrderByDesc(MarketsWhere(polymarket_markets, category, active_only),
                                     "volume24h", MaxVolume, 0),
                         limit)
    IN  Respond(req, Listing(rows))

\* GET /brain/learnings of the main service.
brain_learnings(x_api_key, limit, category) ==
    LET req == [op |-> "brain_learnings", token |-> x_api_key,
                path |-> "/brain/learnings", limit |-> limit,
                category |-> category, active_only |-> FALSE]
        auth == get_auth(x_api_key)
        found == IF GivenCategory(category)
                 THEN SelectSeq(learning_log, LAMBDA r : r.category = category)
                 ELSE learning_log
        rows == SqlLimit(OrderByDesc(found, "created_at", MaxCreatedAt, 0),
                         Min(limit, LEARNINGS_LIMIT_CAP))
    IN  IF auth.status # 200
        THEN /\ Respond(req, GateReply(auth))
             /\ UNCHANGED admitted
        ELSE /\ NoteAdmitted(x_api_key, auth)
             /\ Respond(req, Listing(rows))

(* ------------------------ revenue aggregates --------------------------- *)

\* The sum of a column over the rows of a table.
RECURSIVE SumOver(_, _)
SumOver(rows, col) ==
    IF rows = <<>> THEN 0 ELSE rows[1][col] + SumOver(Tail(rows), col)

\* SQL SUM(col): NULL over no rows.
SqlSum(rows, col) == IF rows = <<>> THEN None ELSE Some(SumOver(rows, col))

\* SQL AVG(col), as the exact fraction sum / count: NULL over no rows.
SqlAvg(rows, col) ==
    IF rows = <<>> THEN None
    ELSE Some([num |-> SumOver(rows, col), den |-> Len(rows)])

\* COALESCE(x, d), and Python's `x or d` on a number that may be None.
Coalesce(x, d) == IF x = None THEN d ELSE Get(x)

\* The number 0 as a fraction.
Zero == [num |-> 0, den |-> 1]

\* A summary whose gap is taken the wrong way round.
RevenueSummaryOf_gap_reversed(rows) ==
    LET monthly == Coalesce(SqlSum(rows, "monthly_revenue"), 0)
        potential == Coalesce(SqlSum(rows, "potential_monthly"), 0)
    IN  [total_streams |-> Len(rows),
         total_monthly_revenue |-> monthly,
         total_potential_revenue |-> potential,
         avg_growth_rate |-> Coalesce(SqlAvg(rows, "growth_rate"), Zero),
         revenue_gap |-> monthly - potential]

\* The aggregate query of get_revenue_summary and the dictionary built from it.
RevenueSummaryOf(rows) ==
    LET monthly == Coalesce(SqlSum(rows, "monthly_revenue"), 0)
        potential == Coalesce(SqlSum(rows, "potential_monthly"), 0)
    IN  [total_streams |-> Len(rows),
         total_monthly_revenue |-> monthly,
         total_potential_revenue |-> potential,
         avg_growth_rate |-> Coalesce(SqlAvg(rows, "growth_rate"), Zero),
         revenue_gap |-> potential - monthly]

\* GET /revenue/summary
get_revenue_summary(x_api_key) ==
    LET req == [op |-> "get_revenue_summary", token |-> x_api_key,
                path |-> "/revenue/summary"]
        auth == get_auth(x_api_key)
    IN  IF auth.status # 200
        THEN /\ Respond(req, GateReply(auth))
             /\ UNCHANGED admitted
        ELSE /\ NoteAdmitted(x_api_key, auth)
             /\ Respond(req, [Reply(200, "") EXCEPT
                                 !.info = {RevenueSummaryOf(revenue_streams)}])

\* The secondary aggregate store at AGGREGATED_DB_PATH, as a request finds
\* it: "missing" (no file), "cannot_open" (a file sqlite3.connect cannot
\* open: no permission, or a directory), "corrupt" (opens, the query raises
\* sqlite3.Error), or "ok" with the three aggregates of daily_revenue.
AggStore(state, stripe_gbp, usdc, days) ==
    [state |-> state, stripe_gbp |-> stripe_gbp, usdc |-> usdc, days |-> days]

\* The dictionary get_revenue_dashboard returns; revenue_log_sum is
\* SELECT SUM(amount) FROM revenue_log.
RevenueDashboardOf(rows, revenue_log_sum, agg) ==
    LET streams_monthly == Coalesce(SqlSum(rows, "monthly_revenue"), 0)
        streams_potential == Coalesce(SqlSum(rows, "potential_monthly"), 0)
        transactions_total == Coalesce(revenue_log_sum, 0)
        read == agg.state = "ok"
        daily_stripe == IF read THEN Coalesce(agg.stripe_gbp, 0) ELSE 0
        daily_usdc == IF read THEN Coalesce(agg.usdc, 0) ELSE 0
        daily_count == IF read THEN agg.days ELSE 0
    IN  [total_streams |-> Len(rows),
         monthly_revenue |-> streams_monthly,
         potential_monthly |-> streams_potential,
         revenue_gap |-> streams_potential - streams_monthly,
         transactions_total |-> transactions_total,
         stripe_gbp |-> daily_stripe,
         usdc |-> daily_usdc,
         total_gbp |-> daily_stripe + daily_usdc,
         days_recorded |-> daily_count,
         combined_total_revenue |->
             streams_monthly + transactions_total + daily_stripe + daily_usdc]

\* GET /revenue/dashboard.  sqlite3.connect(aggregated_db) stands before the
\* try block: when it raises, nothing catches the exception.
get_revenue_dashboard(x_api_key, revenue_log_sum, agg) ==
    LET req == [op |-> "get_revenue_dashboard", token |-> x_api_key,
                path |-> "/revenue/dashboard", agg |-> agg]
        auth == get_auth(x_api_key)
    IN  IF auth.status # 200
        THEN /\ Respond(req, GateReply(auth))
             /\ UNCHANGED admitted
        ELSE /\ NoteAdmitted(x_api_key, auth)
             /\ IF agg.state = "cannot_open"
                THEN Respond(req, Raise("sqlite3.OperationalError"))
                ELSE Respond(req, [Reply(200, "") EXCEPT
                        !.info = {RevenueDashboardOf(revenue_streams,
                                                     revenue_log_sum, agg)}])

(* --------------------------- key creation ------------------------------ *)

\* What INSERT INTO api_keys (..., email_sent, email_sent_at) does: the
\* statement names two columns that the table of init_db.py does not have
\* (OperationalError); a token that is already stored breaks UNIQUE
\* (IntegrityError).
\* A table without the primary key on api_key: no INSERT collides.
InsertKeyOutcome_no_unique(api_key) ==
    IF ~emailSentCols THEN "OperationalError" ELSE "ok"

InsertKeyOutcome(api_key) ==
    IF ~emailSentCols THEN "OperationalError"
    ELSE IF \E k \in api_keys : k.api_key = api_key THEN "IntegrityError"
    ELSE "ok"

MAX_REGISTRATIONS_PER_IP == 3
REGISTRATION_WINDOW_SECONDS == 3600

\* The list comprehension of check_registration_rate: the timestamps kept.
RecentAttempts(ip) ==
    SelectSeq(registration_attempts[ip],
              LAMBDA t : now - t < REGISTRATION_WINDOW_SECONDS)

\* A rate check that is off by one.
check_registration_rate_off_by_one(ip) ==
    Len(RecentAttempts(ip)) <= MAX_REGISTRATIONS_PER_IP

\* check_registration_rate(ip): its return value ...
check_registration_rate(ip) ==
    Len(RecentAttempts(ip)) < MAX_REGISTRATIONS_PER_IP

\* A rate check that records the attempts it refuses too.
AttemptsAfterCheck_records_refused(ip) == Append(RecentAttempts(ip), now)

\* ... and the list it leaves in _registration_attempts[ip].
AttemptsAfterCheck(ip) ==
    IF check_registration_rate(ip)
    THEN Append(RecentAttempts(ip), now)
    ELSE RecentAttempts(ip)

\* A registration that never looks for an existing key.
ExistingActiveKey_unchecked(email) == FALSE

\* SELECT api_key FROM api_keys WHERE customer_email = ? AND
\* subscription_status = 'active' LIMIT 1: does it return a row?
ExistingActiveKey(email) ==
    \E k \in api_keys : /\ k.customer_email = email
                        /\ k.subscription_status = "active"

\* An attempt of the address passed the rate check now (history only).
NotePass(ip) ==
    passes' = IF check_registration_rate(ip)
              THEN [passes EXCEPT ![ip] = Append(@, now)]
              ELSE passes

FREE_DAILY_LIMIT == 100
FREE_MONTHLY_LIMIT == 3000

\* A registration that grants the lowest paid tier.
register_paid_tier(x_api_key, email, client_ip, api_key) ==
    LET req == [op |-> "register", token |-> x_api_key, path |-> "/api/register",
                email |-> email, ip |-> client_ip]
    IN  /\ EmailFieldOk(email) /\ EMAIL_RE(email)
        /\ check_registration_rate(client_ip)
        /\ ~ExistingActiveKey(email)
        /\ InsertKeyOutcome(api_key) = "ok"
        /\ registration_attempts' =
               [registration_attempts EXCEPT ![client_ip] = AttemptsAfterCheck(client_ip)]
        /\ NotePass(client_ip)
        /\ api_keys' = api_keys \cup {KeyRow(api_key, "basic", email, 1000, 30000)}
        /\ Respond(req, [Reply(200, "Keep this key secure.")
                              EXCEPT !.info = {[api_key |-> api_key, tier |-> "basic",
                                                daily_limit |-> 1000]}])

\* POST /api/register; api_key is the token secrets.token_urlsafe() returns.
register(x_api_key, email, client_ip, api_key) ==
    LET req == [op |-> "register", token |-> x_api_key, path |-> "/api/register",
                email |-> email, ip |-> client_ip]
    IN  IF ~EmailFieldOk(email)
        THEN /\ Respond(req, Unprocessable)
             /\ UNCHANGED <<api_keys, registration_attempts, passes>>
        ELSE IF ~EMAIL_RE(email)
        THEN /\ Respond(req, Reply(400, "Invalid email format"))
             /\ UNCHANGED <<api_keys, registration_attempts, passes>>
        ELSE /\ registration_attempts' =
                    [registration_attempts EXCEPT ![client_ip] = AttemptsAfterCheck(client_ip)]
             /\ NotePass(client_ip)
             /\ IF ~check_registration_rate(client_ip)
                THEN /\ Respond(req, Reply(429, "Too many registrations. Try again later."))
                     /\ UNCHANGED api_keys
                ELSE IF ExistingActiveKey(email)
                THEN /\ Respond(req, Reply(409, "An API key already exists for this email."))
                     /\ UNCHANGED api_keys
                ELSE IF InsertKeyOutcome(api_key) = "OperationalError"
                THEN /\ Respond(req, Raise("sqlite3.OperationalError"))
                     /\ UNCHANGED api_keys
                ELSE IF InsertKeyOutcome(api_key) = "IntegrityError"
                THEN /\ Respond(req, Reply(500, "Registration failed. Please try again."))
                     /\ UNCHANGED api_keys
                ELSE /\ api_keys' = api_keys \cup
                          {KeyRow(api_key, "free", email, FREE_DAILY_LIMIT, FREE_MONTHLY_LIMIT)}
                     /\ Respond(req, [Reply(200, "Keep this key secure.")
                                           EXCEPT !.info = {[api_key |-> api_key,
                                                             tier |-> "free",
                                                             daily_limit |-> FREE_DAILY_LIMIT]}])

\* register as a second server process on the same database runs it, one
\* store statement at a time.  (The handler has no await between its
\* statements, so inside one process registrations do not interleave:
\* `register` above; _registration_attempts is a dictionary of each process,
\* and the second process's is taken to admit the attempt.)
PeerRequest(email) ==
    [op |-> "register", token |-> NoHeader, path |-> "/api/register",
     email |-> email, ip |-> "peer"]

\* Up to the SELECT: the pattern check, then the search for an active key of
\* the email; a registration that finds none goes on to its INSERT.
peer_register_select(email, api_key) ==
    IF ~EmailFieldOk(email)
    THEN /\ Respond(PeerRequest(email), Unprocessable)
         /\ UNCHANGED registering
    ELSE IF ~EMAIL_RE(email)
    THEN /\ Respond(PeerRequest(email), Reply(400, "Invalid email format"))
         /\ UNCHANGED registering
    ELSE IF ExistingActiveKey(email)
    THEN /\ Respond(PeerRequest(email),
                    Reply(409, "An API key already exists for this email."))
         /\ UNCHANGED registering
    ELSE /\ registering' = registering \cup {[email |-> email, api_key |-> api_key]}
         /\ UNCHANGED <<last, inflight, peak>>

\* The INSERT and the response of a registration that found no active key.
peer_register_insert(p) ==
    /\ registering' = registering \ {p}
    /\ IF InsertKeyOutcome(p.api_key) = "OperationalError"
       THEN /\ Respond(PeerRequest(p.email), Raise("sqlite3.OperationalError"))
            /\ UNCHANGED api_keys
       ELSE IF InsertKeyOutcome(p.api_key) = "IntegrityError"
       THEN /\ Respond(PeerRequest(p.email),
                       Reply(500, "Registration failed. Please try again."))
            /\ UNCHANGED api_keys
       ELSE /\ api_keys' = api_keys \cup
                 {KeyRow(p.api_key, "free", p.email, FREE_DAILY_LIMIT, FREE_MONTHLY_LIMIT)}
            /\ Respond(PeerRequest(p.email),
                       [Reply(200, "Keep this key secure.")
                           EXCEPT !.info = {[api_key |-> p.api_key, tier |-> "free",
                                             daily_limit |-> FREE_DAILY_LIMIT]}])

ADMIN_MASTER_KEY == "master"
VALID_TIERS == {"free", "basic", "pro", "revenue_api"}

\* limits = {"free": 100, "basic": 1000, "pro": 10000, "revenue_api": 5000}
TierLimit(tier) ==
    CASE tier = "free" -> 100
      [] tier = "basic" -> 1000
      [] tier = "pro" -> 10000
      [] tier = "revenue_api" -> 5000
      [] OTHER -> 100

\* Field constraints of AdminCreateKeyRequest.
AdminCreateKeyRequestOk(r) ==
    /\ EmailFieldOk(r.email)
    /\ \A v \in r.daily_limit : v >= 1 /\ v <= 100000

\* POST /api/admin/create_key (ADMIN_MASTER_KEY configured; when it is not,
\* the endpoint answers 503 and changes nothing).
admin_create_key(x_master_key, r, api_key) ==
    LET req == [op |-> "admin_create_key", token |-> NoHeader,
                path |-> "/api/admin/create_key"]
        daily_limit == IF r.daily_limit # None THEN Get(r.daily_limit)
                       ELSE TierLimit(r.tier)
    IN  IF ~AdminCreateKeyRequestOk(r)
        THEN /\ Respond(req, Unprocessable)
             /\ UNCHANGED api_keys
        ELSE IF x_master_key # ADMIN_MASTER_KEY
        THEN /\ Respond(req, Reply(403, "Unauthorized"))
             /\ UNCHANGED api_keys
        ELSE IF ~EMAIL_RE(r.email)
        THEN /\ Respond(req, Reply(400, "Invalid email format"))
             /\ UNCHANGED api_keys
        ELSE IF r.tier \notin VALID_TIERS
        THEN /\ Respond(req, Reply(400, "Invalid tier"))
             /\ UNCHANGED api_keys
        ELSE IF InsertKeyOutcome(api_key) = "OperationalError"
        THEN /\ Respond(req, Raise("sqlite3.OperationalError"))
             /\ UNCHANGED api_keys
        ELSE IF InsertKeyOutcome(api_key) = "IntegrityError"
        THEN /\ Respond(req, Reply(500, "Key generation failed. Retry."))
             /\ UNCHANGED api_keys
        ELSE /\ api_keys' = api_keys \cup
                  {KeyRow(api_key, r.tier, r.email, daily_limit, daily_limit * 30)}
             /\ Respond(req, [Reply(200, "")
                                   EXCEPT !.info = {[api_key |-> api_key,
                                                     tier |-> r.tier,
                                                     daily_limit |-> daily_limit]}])

(* ------------------------------ webhooks ------------------------------- *)

\* The price identifiers the main service is configured with (the defaults).
STRIPE_BASIC_PRICE == "price_1SzPt7LnWY7IoSqm5YXJEHwy"
STRIPE_PRO_PRICE == "price_1SzPtMLnWY7IoSqm83uF3GM0"
STRIPE_REVENUE_PRICE == "price_1T0LN1LnWY7IoSqmOIELPsqF"
\* A dashboard price configured to another identifier.
DASHBOARD_PRICE_other == "price_other"
DASHBOARD_PRICE == "price_1T1MFxLnWY7IoSqmd8R3pGJV"

\* event["data"]["object"]: a checkout session (id, customer_email, the price
\* identifiers of line_items.data, of which an item may have none, and
\* metadata.price_id) or a payment intent (id).
EventObject(id, customer_email, line_items, metadata_price) ==
    [id |-> id, customer_email |-> customer_email, line_items |-> line_items,
     metadata_price |-> metadata_price]

\* A delivery to a webhook endpoint: the Stripe-Signature header (absent,
\* "forged" or "signed" with the shared secret), whether the body parses,
\* and the event it carries.
WebhookEvent(signature, payload_ok, type, object) ==
    [signature |-> signature, payload_ok |-> payload_ok, type |-> type,
     object |-> object]

\* A verification that lets every delivery through.
construct_event_unverified(event) == "ok"

\* stripe.Webhook.construct_event(payload, sig_header, secret): the exception
\* it raises, or "ok".
construct_event(event) ==
    IF event.signature # "signed" THEN "SignatureVerificationError"
    ELSE IF ~event.payload_ok THEN "ValueError"
    ELSE "ok"

\* A lookup that prefers the metadata to the line items.
PriceIdOf_metadata_first(session) ==
    IF session.metadata_price # None THEN session.metadata_price
    ELSE IF session.line_items # <<>> THEN session.line_items[1]
    ELSE None

\* price_id of stripe_webhook: that of the first line item, if there is one
\* and it has one, and else metadata.price_id (None when absent).
PriceIdOf(session) ==
    LET first == IF session.line_items # <<>> THEN session.line_items[1] ELSE None
    IN  IF first # None THEN first ELSE session.metadata_price

\* price_to_tier.get(price_id, "basic")
TierOfPrice(price_id) ==
    CASE price_id = Some(STRIPE_BASIC_PRICE) -> "basic"
      [] price_id = Some(STRIPE_PRO_PRICE) -> "pro"
      [] price_id = Some(STRIPE_REVENUE_PRICE) -> "revenue_api"
      [] OTHER -> "basic"

\* limits.get(tier, 1000) of stripe_webhook
PaidTierLimit(tier) ==
    CASE tier = "basic" -> 1000
      [] tier = "pro" -> 10000
      [] tier = "revenue_api" -> 5000
      [] OTHER -> 1000

\* A handler that provisions a key for a verified event of any type.
stripe_webhook_any_type(configured, event, api_key, retry_key) ==
    LET req == [op |-> "stripe_webhook", token |-> NoHeader,
                path |-> "/stripe/webhook", configured |-> configured,
                event |-> event, minted |-> <<api_key, retry_key>>]
        tier == TierOfPrice(PriceIdOf(event.object))
    IN  IF ~configured \/ construct_event(event) # "ok"
        THEN /\ Respond(req, Reply(400, "Invalid signature"))
             /\ UNCHANGED <<api_keys, dashboard_subscriptions>>
        ELSE /\ api_keys' = api_keys \cup
                   {KeyRow(api_key, tier, event.object.customer_email,
                           PaidTierLimit(tier), PaidTierLimit(tier) * 30)}
             /\ Respond(req, Reply(200, "received"))
             /\ UNCHANGED dashboard_subscriptions

\* POST /stripe/webhook of the main service.  configured: STRIPE_SECRET_KEY
\* and STRIPE_WEBHOOK_SECRET are set; api_key and retry_key are the tokens
\* the two calls of secrets.token_urlsafe() return.  Only IntegrityError of
\* the first INSERT is caught; the retry stands in the except block, so what
\* it raises escapes the handler, as does any other error of the first.
stripe_webhook(configured, event, api_key, retry_key) ==
    LET req == [op |-> "stripe_webhook", token |-> NoHeader,
                path |-> "/stripe/webhook", configured |-> configured,
                event |-> event, minted |-> <<api_key, retry_key>>]
        session == event.object
        price_id == PriceIdOf(session)
        tier == TierOfPrice(price_id)
        daily_limit == PaidTierLimit(tier)
        row(k) == KeyRow(k, tier, session.customer_email, daily_limit, daily_limit * 30)
    IN  IF ~configured
        THEN /\ Respond(req, Reply(503, "Payment processing not configured"))
             /\ UNCHANGED <<api_keys, dashboard_subscriptions>>
        ELSE IF event.signature = NoHeader
        THEN /\ Respond(req, Reply(400, "Missing signature"))
             /\ UNCHANGED <<api_keys, dashboard_subscriptions>>
        ELSE IF construct_event(event) = "ValueError"
        THEN /\ Respond(req, Reply(400, "Invalid payload"))
             /\ UNCHANGED <<api_keys, dashboard_subscriptions>>
        ELSE IF construct_event(event) = "SignatureVerificationError"
        THEN /\ Respond(req, Reply(400, "Invalid signature"))
             /\ UNCHANGED <<api_keys, dashboard_subscriptions>>
        ELSE IF event.type # "checkout.session.completed"
        THEN /\ Respond(req, Reply(200, "received"))
             /\ UNCHANGED <<api_keys, dashboard_subscriptions>>
        ELSE IF price_id = Some(DASHBOARD_PRICE)
        THEN /\ Len(dashboard_subscriptions) < MaxSubscriptions
             /\ dashboard_subscriptions' = Append(dashboard_subscriptions,
                   [customer_email |-> session.customer_email,
                    price_id |-> DASHBOARD_PRICE,
                    stripe_session_id |-> session.id, status |-> "active"])
             /\ Respond(req, Reply(200, "dashboard_subscription_created"))
             /\ UNCHANGED api_keys
        ELSE IF InsertKeyOutcome(api_key) = "ok"
        THEN /\ api_keys' = api_keys \cup {row(api_key)}
             /\ Respond(req, Reply(200, "received"))
             /\ UNCHANGED dashboard_subscriptions
        ELSE IF InsertKeyOutcome(api_key) = "OperationalError"
        THEN /\ Respond(req, Raise("sqlite3.OperationalError"))
             /\ UNCHANGED <<api_keys, dashboard_subscriptions>>
        ELSE IF InsertKeyOutcome(retry_key) = "ok"
        THEN /\ api_keys' = api_keys \cup {row(retry_key)}
             /\ Respond(req, Reply(200, "received"))
             /\ UNCHANGED dashboard_subscriptions
        ELSE /\ Respond(req, Raise("sqlite3.IntegrityError"))
             /\ UNCHANGED <<api_keys, dashboard_subscriptions>>

\* log_payment of the payment service: INSERT INTO payments; when it fails
\* (no table yet) the table is created and the INSERT repeated; a
\* payment_intent_id that is already stored breaks UNIQUE both times, which
\* is logged and nothing else.
log_payment(payment_intent_id, status) ==
    IF \E i \in DOMAIN payments : payments[i].payment_intent_id = payment_intent_id
    THEN payments
    ELSE Append(payments, [payment_intent_id |-> payment_intent_id, status |-> status])

\* POST /create-payment-intent of the payment service; intent is what
\* stripe.PaymentIntent.create returns, None when it raises StripeError.
create_payment_intent(intent) ==
    LET req == [op |-> "create_payment_intent", token |-> NoHeader,
                path |-> "/create-payment-intent"]
    IN  IF intent = None
        THEN /\ Respond(req, Reply(400, "StripeError"))
             /\ UNCHANGED payments
        ELSE /\ payments' = log_payment(Get(intent).id, Get(intent).status)
             /\ Respond(req, Reply(200, Get(intent).status))

\* UPDATE payments SET status = ? WHERE payment_intent_id = ?  (an error of
\* the statement, such as a missing table, is caught and logged).
PaymentsWithStatus(payment_intent_id, status) ==
    [i \in DOMAIN payments |->
        IF payments[i].payment_intent_id = payment_intent_id
        THEN [payments[i] EXCEPT !.status = status]
        ELSE payments[i]]

\* The payment service's database at BRAIN_DB as a request finds it: "ok";
\* "no_table" (it opens, payments is missing: the UPDATE raises);
\* "cannot_open" (sqlite3.connect raises: the directory of the path is
\* missing, or the file cannot be read).
PaymentDbStates == {"ok", "no_table", "cannot_open"}

\* POST /webhook of the payment service (stripe/stripe_api.py: stripe_webhook).
\* sqlite3.connect stands before the try block of each branch; the UPDATE
\* stands inside it, under `except Exception`.
payment_webhook(event, db) ==
    LET req == [op |-> "payment_webhook", token |-> NoHeader, path |-> "/webhook",
                configured |-> TRUE, event |-> event, db |-> db]
        status == IF event.type = "payment_intent.succeeded" THEN "succeeded"
                  ELSE "failed"
    IN  IF event.signature = NoHeader
        THEN /\ Respond(req, Reply(400, "Missing Stripe-Signature header"))
             /\ UNCHANGED payments
        ELSE IF construct_event(event) = "ValueError"
        THEN /\ Respond(req, Reply(400, "Invalid payload"))
             /\ UNCHANGED payments
        ELSE IF construct_event(event) = "SignatureVerificationError"
        THEN /\ Respond(req, Reply(400, "Invalid signature"))
             /\ UNCHANGED payments
        ELSE IF event.type \notin {"payment_intent.succeeded",
                                   "payment_intent.payment_failed"}
        THEN /\ Respond(req, Reply(200, "received"))
             /\ UNCHANGED payments
        ELSE IF db = "cannot_open"
        THEN /\ Respond(req, Raise("sqlite3.OperationalError"))
             /\ UNCHANGED payments
        ELSE IF db = "no_table"
        THEN /\ Respond(req, Reply(200, "received"))
             /\ UNCHANGED payments
        ELSE /\ payments' = PaymentsWithStatus(event.object.id, status)
             /\ Respond(req, Reply(200, "received"))

(* ----------------------- the usage-log middleware ---------------------- *)

\* The row log_api_usage inserts; created_at defaults to CURRENT_TIMESTAMP.
UsageRow(e) ==
    [api_key |-> e.token, endpoint |-> e.path, status_code |-> e.status,
     created_at |-> now]

\* A ledger that keeps only the latest row of each token.
LoggedUsage_latest_only(e) ==
    Append(SelectSeq(api_usage_log, LAMBDA r : r.api_key # e.token),
           [api_key |-> e.token, endpoint |-> e.path, status_code |-> e.status,
            created_at |-> now])

\* The ledger after the middleware's part that follows `await call_next`:
\* never reached when call_next raised.
LoggedUsage(e) ==
    IF ~e.raised THEN Append(api_usage_log, UsageRow(e)) ELSE api_usage_log

\* log_api_usage after call_next: a request that carries a token completes.
Complete(e) ==
    /\ BagIn(e, inflight)
    /\ api_usage_log' = LoggedUsage(e)
    /\ inflight' = inflight (-) SetToBag({e})
    /\ UNCHANGED <<polymarket_markets, learning_log, registering,
                       now, tz, emailSentCols, dashboard_subscriptions, payments,
                       api_keys, revenue_streams,
                   price_monitor_jobs, registration_attempts, last, admitted,
                   peak, passes>>

\* Time passes.  (The history `passes` forgets what is 3600 seconds old: a
\* window of 3600 seconds that holds a pass made from now on cannot hold it.)
Tick ==
    /\ now + TickStep <= MaxClock
    /\ now' = now + TickStep
    /\ passes' = [a \in Addresses |->
                    SelectSeq(passes[a], LAMBDA t : now' - t < 3600)]
    /\ UNCHANGED <<polymarket_markets, learning_log, registering,
                   tz, emailSentCols, dashboard_subscriptions, payments,
                   api_keys, api_usage_log, revenue_streams,
                   price_monitor_jobs, registration_attempts, last, inflight,
                   admitted, peak>>

(* ------------------------- requests and Next --------------------------- *)

StreamGood ==
    [name |-> <<"s">>, category |-> "api", monthly_revenue |-> 500,
     potential_monthly |-> 5000, growth_rate |-> 105, notes |-> None]
StreamInputs ==
    {StreamGood,
     [StreamGood EXCEPT !.category = "crypto"],
     [StreamGood EXCEPT !.monthly_revenue = 0 - 1],
     [StreamGood EXCEPT !.name = <<"<">>, !.notes = Some(<<"&">>)]}

UpdateNothing ==
    [monthly_revenue |-> None, potential_monthly |-> None,
     growth_rate |-> None, notes |-> None]
UpdateInputs ==
    {UpdateNothing,
     [UpdateNothing EXCEPT !.growth_rate = Some(120)],
     [UpdateNothing EXCEPT !.monthly_revenue = Some(750), !.notes = Some(<<">">>)],
     [UpdateNothing EXCEPT !.potential_monthly = Some(0 - 5)]}
StreamIds == 1..(MaxStreams + 1)

UrlGood == [scheme |-> "https", hostname |-> "example.com", ip |-> "name"]
PriceMonitorInputs ==
    {[product_url |-> UrlGood, email |-> EmailA, interval_hours |-> 24],
     [product_url |-> UrlGood, email |-> EmailNoTld, interval_hours |-> 24],
     [product_url |-> UrlGood, email |-> EmailA, interval_hours |-> 0],
     [product_url |-> [UrlGood EXCEPT !.hostname = "localhost"],
      email |-> EmailA, interval_hours |-> 24],
     [product_url |-> [UrlGood EXCEPT !.hostname = "10.0.0.8", !.ip = "private"],
      email |-> EmailA, interval_hours |-> 24]}

ReadPaths == {"/revenue/summary"}

AdminInputs ==
    [email : {EmailA, EmailNoTld, EmailShort}, tier : {"basic", "gold"},
     daily_limit : {None, Some(1), Some(2), Some(0)}]
MasterKeys == {ADMIN_MASTER_KEY, "guess", NoHeader}


BizRoom == Len(api_usage_log) + BagCardinality(inflight) < MaxBizUsage

\* X-API-Key of the business requests: a token, or no header.  (An empty
\* header is answered as an absent one; ReadOnly sends both.)
BizHeaders == Tokens \cup {NoHeader}

CreateRevenueStream ==
    \E h \in BizHeaders, stream \in StreamInputs :
        /\ BizRoom
        /\ create_revenue_stream(h, stream)
        /\ UNCHANGED <<polymarket_markets, learning_log, registering,
                       now, tz, emailSentCols, dashboard_subscriptions, payments,
                       api_keys, api_usage_log,
                       price_monitor_jobs, registration_attempts, passes>>

UpdateRevenueStream ==
    \E h \in BizHeaders, id \in StreamIds, update \in UpdateInputs :
        /\ BizRoom
        /\ update_revenue_stream(h, id, update)
        /\ UNCHANGED <<polymarket_markets, learning_log, registering,
                       now, tz, emailSentCols, dashboard_subscriptions, payments,
                       api_keys, api_usage_log,
                       price_monitor_jobs, registration_attempts, passes>>

PriceMonitor ==
    \E h \in BizHeaders, r \in PriceMonitorInputs :
        /\ BizRoom
        /\ price_monitor(h, r)
        /\ UNCHANGED <<polymarket_markets, learning_log, registering,
                       now, tz, emailSentCols, dashboard_subscriptions, payments,
                       api_keys, api_usage_log,
                       revenue_streams, registration_attempts, passes>>

ReadOnly ==
    \E h \in HeaderValues, path \in ReadPaths :
        /\ read_only(h, path)
        /\ UNCHANGED <<polymarket_markets, learning_log, registering,
                       now, tz, emailSentCols, dashboard_subscriptions, payments,
                       api_keys, api_usage_log,
                       revenue_streams, price_monitor_jobs, registration_attempts,
                       passes>>

\* A registration request as clients send it: without an X-API-Key header.
Register ==
    \E email \in Emails, ip \in Addresses, api_key \in Tokens :
        /\ register(NoHeader, email, ip, api_key)
        /\ UNCHANGED <<polymarket_markets, learning_log, registering,
                       now, tz, emailSentCols, dashboard_subscriptions, payments,
                       api_usage_log, revenue_streams,
                       price_monitor_jobs, admitted>>

\* A registration request sent with an X-API-Key header (the middleware wraps
\* every route, gated or not).
RegisterWithKey ==
    \E h \in Tokens, email \in {EmailA, EmailNoTld}, api_key \in Tokens :
        /\ register(h, email, "unknown", api_key)
        /\ UNCHANGED <<polymarket_markets, learning_log, registering,
                       now, tz, emailSentCols, dashboard_subscriptions, payments,
                       api_usage_log, revenue_streams,
                       price_monitor_jobs, admitted>>

AdminCreateKey ==
    \E m \in MasterKeys, r \in AdminInputs, api_key \in Tokens :
        /\ admin_create_key(m, r, api_key)
        /\ UNCHANGED <<polymarket_markets, learning_log, registering,
                       now, tz, emailSentCols, dashboard_subscriptions, payments,
                       api_usage_log, revenue_streams,
                       price_monitor_jobs, registration_attempts, admitted, passes>>

\* What SELECT SUM(amount) FROM revenue_log returns: NULL for no rows.
RevenueLogSums == {None, Some(250)}
\* States of the secondary aggregate store.
AggStores ==
    {AggStore("missing", None, None, 0),
     AggStore("cannot_open", None, None, 0),
     AggStore("corrupt", None, None, 0),
     AggStore("ok", None, None, 0),
     AggStore("ok", Some(100), Some(40), 2)}

RevenueSummary ==
    \E h \in BizHeaders :
        /\ BizRoom
        /\ get_revenue_summary(h)
        /\ UNCHANGED <<polymarket_markets, learning_log, registering,
                       now, tz, emailSentCols, dashboard_subscriptions, payments,
                       api_keys, api_usage_log, revenue_streams,
                       price_monitor_jobs, registration_attempts, passes>>

\* A request whose handler raises leaves no usage row, so the ledger does not
\* bound the number of such requests: the count of admissions does.
AdmitRoom == \A t \in Tokens, d \in Days : admitted[t][d] < MaxBizUsage

RevenueDashboard ==
    \E h \in BizHeaders, tx \in RevenueLogSums, agg \in AggStores :
        /\ BizRoom
        /\ AdmitRoom
        /\ get_revenue_dashboard(h, tx, agg)
        /\ UNCHANGED <<polymarket_markets, learning_log, registering,
                       now, tz, emailSentCols, dashboard_subscriptions, payments,
                       api_keys, api_usage_log, revenue_streams,
                       price_monitor_jobs, registration_attempts, passes>>

\* Checkout sessions: the first of two line items priced pro (metadata says
\* revenue_api); a line item without a price, metadata revenue_api; no line
\* item and no metadata; an unmapped price; the dashboard price in metadata.
CheckoutSessions ==
    {EventObject("cs_1", EmailA, <<Some(STRIPE_PRO_PRICE), Some(STRIPE_BASIC_PRICE)>>,
                 Some(STRIPE_REVENUE_PRICE)),
     EventObject("cs_2", EmailA, <<None>>, Some(STRIPE_REVENUE_PRICE)),
     EventObject("cs_3", EmailB, <<>>, None),
     EventObject("cs_4", EmailB, <<Some("price_other")>>, None),
     EventObject("cs_5", EmailB, <<>>, Some(DASHBOARD_PRICE))}
PaymentIntentObject(id) == EventObject(id, EmailA, <<>>, None)
SessionOne ==
    EventObject("cs_1", EmailA, <<Some(STRIPE_PRO_PRICE), Some(STRIPE_BASIC_PRICE)>>,
                Some(STRIPE_REVENUE_PRICE))

\* Deliveries: every checkout session properly signed; one with a forged
\* signature, one without the header, one signed whose body does not parse;
\* payment events, signed and forged; an event of another type.
WebhookEvents ==
    {WebhookEvent("signed", TRUE, "checkout.session.completed", o) : o \in CheckoutSessions}
    \cup {WebhookEvent("forged", TRUE, "checkout.session.completed", SessionOne),
          WebhookEvent(NoHeader, TRUE, "checkout.session.completed", SessionOne),
          WebhookEvent("signed", FALSE, "checkout.session.completed", SessionOne),
          WebhookEvent("signed", TRUE, "payment_intent.succeeded", PaymentIntentObject("pi_1")),
          WebhookEvent("signed", TRUE, "payment_intent.payment_failed", PaymentIntentObject("pi_1")),
          WebhookEvent("signed", TRUE, "payment_intent.succeeded", PaymentIntentObject("pi_2")),
          WebhookEvent("forged", TRUE, "payment_intent.succeeded", PaymentIntentObject("pi_1")),
          WebhookEvent("signed", TRUE, "invoice.paid", PaymentIntentObject("in_1"))}

\* What stripe.PaymentIntent.create returns (None: it raised StripeError).
PaymentIntents == {None, Some([id |-> "pi_1", status |-> "requires_payment_method"])}

StripeWebhook ==
    \E configured \in BOOLEAN, event \in WebhookEvents, api_key \in Tokens,
       retry_key \in Tokens :
        /\ configured \/ event.object = SessionOne
        /\ stripe_webhook(configured, event, api_key, retry_key)
        /\ UNCHANGED <<polymarket_markets, learning_log, registering,
                       now, tz, emailSentCols, payments, api_usage_log,
                       revenue_streams, price_monitor_jobs, registration_attempts,
                       admitted, passes>>

PaymentWebhook ==
    \E event \in WebhookEvents, db \in PaymentDbStates :
        /\ db = "no_table" => payments = <<>>
        /\ payment_webhook(event, db)
        /\ UNCHANGED <<polymarket_markets, learning_log, registering,
                       now, tz, emailSentCols, dashboard_subscriptions, api_keys,
                       api_usage_log, revenue_streams, price_monitor_jobs,
                       registration_attempts, admitted, passes>>

CreatePaymentIntent ==
    \E intent \in PaymentIntents :
        /\ create_payment_intent(intent)
        /\ UNCHANGED <<polymarket_markets, learning_log, registering,
                       now, tz, emailSentCols, dashboard_subscriptions, api_keys,
                       api_usage_log, revenue_streams, price_monitor_jobs,
                       registration_attempts, admitted, passes>>

PeerRegisterSelect ==
    \E email \in {EmailA, EmailB, EmailNoTld}, api_key \in Tokens :
        /\ Cardinality(registering) < MaxRegistering
        /\ peer_register_select(email, api_key)
        /\ UNCHANGED <<polymarket_markets, learning_log, now, tz, emailSentCols,
                       dashboard_subscriptions, payments, api_keys, api_usage_log,
                       revenue_streams, price_monitor_jobs, registration_attempts,
                       admitted, passes>>

PeerRegisterInsert ==
    \E p \in registering :
        /\ peer_register_insert(p)
        /\ UNCHANGED <<polymarket_markets, learning_log, now, tz, emailSentCols,
                       dashboard_subscriptions, payments, api_usage_log,
                       revenue_streams, price_monitor_jobs, registration_attempts,
                       admitted, passes>>

\* Values of the limit query parameter: negative, zero, small, the larger
\* cap and beyond; and of the category parameter: absent, empty, a category.
Limits == {0 - 1, 0, 2, MARKETS_LIMIT_CAP, MARKETS_LIMIT_CAP + 1}
Categories == {None, Some(""), Some("politics")}

\* Market tables: empty; a few rows, active, inactive and with NULL flag;
\* many rows, every seventh of them inactive.
FewMarkets ==
    <<MarketRow("m1", Some("politics"), 2, Some(1)),
      MarketRow("m2", Some("politics"), 1, Some(0)),
      MarketRow("m3", Some("sports"), 2, Some(0)),
      MarketRow("m4", None, 0, None),
      MarketRow("m5", Some("sports"), 0, Some(1))>>
MarketsOf(n, inactive_every) ==
    [i \in 1..n |->
        MarketRow(i, IF i % 2 = 0 THEN Some("politics") ELSE Some("sports"),
                  i % (MaxVolume + 1),
                  IF inactive_every > 0 /\ i % inactive_every = 0 THEN Some(0) ELSE Some(1))]
LearningsOf(n) ==
    [i \in 1..n |->
        LearningRow(i, IF i % 2 = 0 THEN Some("politics") ELSE None,
                    i % (MaxCreatedAt + 1))]
\* The two tables as a run finds them (they are written outside these
\* services).
ListingStores ==
    {<<<<>>, <<>>>>,
     <<FewMarkets, LearningsOf(3)>>,
     <<MarketsOf(ManyMarkets, 7), LearningsOf(ManyLearnings)>>}

\* Gated listings are issued while the usage ledger and the requests in
\* flight together number fewer than MaxListUsage.
ListRoom == Len(api_usage_log) + BagCardinality(inflight) < MaxListUsage

PolymarketMarkets ==
    \E h \in {"sk_1", NoHeader}, limit \in Limits, category \in Categories,
       active_only \in BOOLEAN :
        /\ ListRoom
        /\ get_polymarket_markets(h, limit, category, active_only)
        /\ UNCHANGED <<polymarket_markets, learning_log, registering, now, tz,
                       emailSentCols, dashboard_subscriptions, payments, api_keys,
                       api_usage_log, revenue_streams, price_monitor_jobs,
                       registration_attempts, passes>>

StandaloneMarkets ==
    \E limit \in Limits, category \in Categories, active_only \in BOOLEAN :
        /\ get_markets(limit, category, active_only)
        /\ UNCHANGED <<polymarket_markets, learning_log, registering, now, tz,
                       emailSentCols, dashboard_subscriptions, payments, api_keys,
                       api_usage_log, revenue_streams, price_monitor_jobs,
                       registration_attempts, admitted, passes>>

BrainLearnings ==
    \E h \in {"sk_1", NoHeader}, limit \in Limits, category \in Categories :
        /\ ListRoom
        /\ brain_learnings(h, limit, category)
        /\ UNCHANGED <<polymarket_markets, learning_log, registering, now, tz,
                       emailSentCols, dashboard_subscriptions, payments, api_keys,
                       api_usage_log, revenue_streams, price_monitor_jobs,
                       registration_attempts, passes>>

CompleteRequest == \E e \in BagToSet(inflight) : Complete(e)

Next ==
    \/ CreateRevenueStream
    \/ UpdateRevenueStream
    \/ PriceMonitor
    \/ ReadOnly
    \/ Register
    \/ RegisterWithKey
    \/ AdminCreateKey
    \/ RevenueSummary
    \/ RevenueDashboard
    \/ StripeWebhook
    \/ PaymentWebhook
    \/ CreatePaymentIntent
    \/ PeerRegisterSelect
    \/ PeerRegisterInsert
    \/ PolymarketMarkets
    \/ StandaloneMarkets
    \/ BrainLearnings
    \/ CompleteRequest
    \/ Tick

\* The whole service.
Spec == Init /\ [][Next]_vars

\* The gate and the usage ledger: gated requests against the seeded key
\* stores, as time passes.  No key is created here, so the schema flag is moot.
InitGate == Init /\ emailSentCols
NextGate == ReadOnly \/ CompleteRequest \/ Tick
SpecGate == InitGate /\ [][NextGate]_vars

\* Self-registration, as time passes.  Registration never reads the local
\* date, so the time zone is moot.
InitReg == Init /\ tz = 0 /\ Cardinality(api_keys) < 2
NextReg == Register \/ Tick
SpecReg == InitReg /\ [][NextReg]_vars

\* Requests to the ungated registration route that carry a token, and the
\* middleware's usage rows for them.
NextRegLog == RegisterWithKey \/ CompleteRequest
SpecRegLog == InitReg /\ [][NextRegLog]_vars

\* The gated operations that write business tables, against a store with a
\* revoked key and an active key of daily limit 1.
InitBiz ==
    /\ Init /\ emailSentCols /\ tz = 0
    /\ api_keys = {RevokedSeed, KeyRow("sk_2", "basic", EmailB, 1, 30)}
NextBiz ==
    \/ CreateRevenueStream
    \/ UpdateRevenueStream
    \/ PriceMonitor
    \/ CompleteRequest
SpecBiz == InitBiz /\ [][NextBiz]_vars

\* The revenue-stream store and its aggregates, used with a key that was
\* self-registered earlier (daily limit 100).
InitRev ==
    /\ now = StartClock
    /\ tz = 0
    /\ emailSentCols = TRUE
    /\ api_keys = {KeyRow("sk_1", "free", EmailA, FREE_DAILY_LIMIT, FREE_MONTHLY_LIMIT)}
    /\ api_usage_log = <<>>
    /\ revenue_streams = <<>>
    /\ price_monitor_jobs = <<>>
    /\ registration_attempts = [a \in Addresses |-> <<>>]
    /\ last = NoResp
    /\ inflight = EmptyBag
    /\ admitted = [t \in Tokens |-> [d \in Days |-> 0]]
    /\ peak = [t \in Tokens |-> 0]
    /\ passes = [a \in Addresses |-> <<>>]
    /\ dashboard_subscriptions = <<>>
    /\ payments = <<>>
    /\ polymarket_markets = <<>>
    /\ learning_log = <<>>
    /\ registering = {}
NextRev ==
    \/ CreateRevenueStream
    \/ UpdateRevenueStream
    \/ RevenueSummary
    \/ CompleteRequest
SpecRev == InitRev /\ [][NextRev]_vars

\* The combined dashboard over the revenue-stream store.
NextDash == CreateRevenueStream \/ RevenueDashboard \/ CompleteRequest
SpecDash == InitRev /\ [][NextDash]_vars

\* The two webhook endpoints and the payment rows they act on.
InitHook == Init /\ tz = 0
NextHook == StripeWebhook \/ PaymentWebhook \/ CreatePaymentIntent
SpecHook == InitHook /\ [][NextHook]_vars

\* The three operations that create keys: self-registration, the admin
\* endpoint and the main service's webhook, against a store that holds one
\* revoked key.
InitKeys ==
    /\ now = StartClock
    /\ tz = 0
    /\ emailSentCols = TRUE
    /\ api_keys = {RevokedSeed}
    /\ api_usage_log = <<>>
    /\ revenue_streams = <<>>
    /\ price_monitor_jobs = <<>>
    /\ registration_attempts = [a \in Addresses |-> <<>>]
    /\ last = NoResp
    /\ inflight = EmptyBag
    /\ admitted = [t \in Tokens |-> [d \in Days |-> 0]]
    /\ peak = [t \in Tokens |-> 0]
    /\ passes = [a \in Addresses |-> <<>>]
    /\ dashboard_subscriptions = <<>>
    /\ payments = <<>>
    /\ polymarket_markets = <<>>
    /\ learning_log = <<>>
    /\ registering = {}
NextKeys == Register \/ AdminCreateKey \/ StripeWebhook
SpecKeys == InitKeys /\ [][NextKeys]_vars

\* The gate from half an hour before the model's usual start (22:30 UTC), so
\* that a local midnight east of UTC (23:00 UTC) falls inside the run.
InitEve ==
    /\ now = StartClock - TickStep
    /\ tz \in TzOffsets
    /\ emailSentCols = TRUE
    /\ api_keys = {KeyRow("sk_1", "basic", EmailA, 1, 30), KeyRow("sk_2", "pro", EmailB, 2, 60)}
    /\ api_usage_log = <<>>
    /\ revenue_streams = <<>>
    /\ price_monitor_jobs = <<>>
    /\ registration_attempts = [a \in Addresses |-> <<>>]
    /\ last = NoResp
    /\ inflight = EmptyBag
    /\ admitted = [t \in Tokens |-> [d \in Days |-> 0]]
    /\ peak = [t \in Tokens |-> 0]
    /\ passes = [a \in Addresses |-> <<>>]
    /\ dashboard_subscriptions = <<>>
    /\ payments = <<>>
    /\ polymarket_markets = <<>>
    /\ learning_log = <<>>
    /\ registering = {}
NextEve == ReadOnly \/ CompleteRequest \/ Tick
SpecEve == InitEve /\ [][NextEve]_vars

\* Self-registration served by two processes on one database, which starts
\* without keys.
InitRace ==
    /\ now = StartClock
    /\ tz = 0
    /\ emailSentCols \in BOOLEAN
    /\ api_keys = {}
    /\ api_usage_log = <<>>
    /\ revenue_streams = <<>>
    /\ price_monitor_jobs = <<>>
    /\ registration_attempts = [a \in Addresses |-> <<>>]
    /\ last = NoResp
    /\ inflight = EmptyBag
    /\ admitted = [t \in Tokens |-> [d \in Days |-> 0]]
    /\ peak = [t \in Tokens |-> 0]
    /\ passes = [a \in Addresses |-> <<>>]
    /\ dashboard_subscriptions = <<>>
    /\ payments = <<>>
    /\ polymarket_markets = <<>>
    /\ learning_log = <<>>
    /\ registering = {}
NextRace == Register \/ PeerRegisterSelect \/ PeerRegisterInsert
SpecRace == InitRace /\ [][NextRace]_vars

\* The listings of the main service and of the standalone market service,
\* over tables of several sizes, with a self-registered key.
InitList ==
    /\ now = StartClock
    /\ tz = 0
    /\ emailSentCols = TRUE
    /\ api_keys = {KeyRow("sk_1", "free", EmailA, FREE_DAILY_LIMIT, FREE_MONTHLY_LIMIT)}
    /\ api_usage_log = <<>>
    /\ revenue_streams = <<>>
    /\ price_monitor_jobs = <<>>
    /\ registration_attempts = [a \in Addresses |-> <<>>]
    /\ last = NoResp
    /\ inflight = EmptyBag
    /\ admitted = [t \in Tokens |-> [d \in Days |-> 0]]
    /\ peak = [t \in Tokens |-> 0]
    /\ passes = [a \in Addresses |-> <<>>]
    /\ dashboard_subscriptions = <<>>
    /\ payments = <<>>
    /\ \E st \in ListingStores : polymarket_markets = st[1] /\ learning_log = st[2]
    /\ registering = {}
NextList == PolymarketMarkets \/ StandaloneMarkets \/ BrainLearnings \/ CompleteRequest
SpecList == InitList /\ [][NextList]_vars

(* ======================================================================= *)
(*                               the claims                                *)
(* ======================================================================= *)

\* This step is a handler producing a response.
HandleStep == last'.seq # last.seq
\* This step is the middleware completing a request that carries a token.
CompleteStep == inflight' # inflight /\ last' = last

GatedOps == {"create_revenue_stream", "update_revenue_stream", "price_monitor",
             "read_only", "get_revenue_summary", "get_revenue_dashboard",
             "get_polymarket_markets", "brain_learnings"}
\* The response r is that of a gated operation whose handler ran (its body
\* was well-formed), so the gate decided first.
GateDecided(r) == r.req.op \in GatedOps /\ r.status # 422

\* The active key rows of a token, read off the table.
ActiveRows(t) ==
    {k \in api_keys : k.api_key = t /\ k.subscription_status = "active"}

\* Usage rows of token t whose stored (UTC) date is day d.
RowsOfDay(t, d) ==
    {i \in DOMAIN api_usage_log :
        /\ api_usage_log[i].api_key = t
        /\ api_usage_log[i].created_at \div SecondsPerDay = d}

\* The current UTC date.
UTCToday == now \div SecondsPerDay

\* C1: for an active token of daily limit L, a request through the gate fails
\* with 429 once L usage rows of the token are logged for the current (UTC)
\* day, and does not fail with 429 while fewer than L are logged.
C1_QuotaEnforced ==
    [][(HandleStep /\ GateDecided(last')) =>
          \A k \in ActiveRows(last'.req.token) :
              (Cardinality(RowsOfDay(k.api_key, UTCToday)) >= k.daily_limit)
                  <=> (last'.status = 429)]_vars

\* C2: the number of requests the gate admits for an active token within one
\* (UTC) day never exceeds its daily limit plus the largest number of the
\* token's requests that were in flight at once.
C2_BurstBound ==
    \A t \in Tokens, d \in Days :
        \A k \in ActiveRows(t) : admitted[t][d] <= k.daily_limit + peak[t]

\* C3: the gate decides in a fixed order: no token -> 401; no active key row
\* for the token (unknown or revoked alike, whatever its usage) -> 403 with
\* one and the same response; today's count >= daily limit -> 429; otherwise
\* success with the key's tier and daily limit.  (Which rows count as today's
\* is the subject of C4; here the count is the one the gate takes.)
C3_GateOrder ==
    [][(HandleStep /\ GateDecided(last')) =>
          LET t == last'.req.token
          IN  IF t \in {NoHeader, ""}
              THEN last'.status = 401 /\ last'.info = {}
              ELSE IF ActiveRows(t) = {}
              THEN /\ last'.status = 403
                   /\ last'.detail = "Invalid API key"
                   /\ last'.info = {}
              ELSE \A k \in ActiveRows(t) :
                     IF Cardinality(RowsOfDay(t, Today)) >= k.daily_limit
                     THEN last'.status = 429 /\ last'.info = {}
                     ELSE /\ last'.status \notin {401, 403, 429}
                          /\ last'.req.op = "read_only" =>
                               /\ last'.status = 200
                               /\ \E i \in last'.info :
                                     /\ i.tier = k.tier
                                     /\ i.daily_limit = k.daily_limit]_vars

\* C3's case: a revoked token with usage rows was answered 403, and elsewhere
\* the gate reached its last check.
C3_Witness ==
    /\ last.req.op = "read_only"
    /\ last.status = 403
    /\ \E k \in api_keys : /\ k.api_key = last.req.token
                           /\ k.subscription_status = "revoked"
                           /\ Cardinality(RowsOfDay(k.api_key, Today)) >= k.daily_limit

\* C4: the gate counts exactly the usage rows of the token whose stored date
\* is the current UTC date.
C4_CountsUTCDay ==
    [][(HandleStep /\ GateDecided(last') /\ last'.count >= 0) =>
          last'.count = Cardinality(RowsOfDay(last'.req.token, UTCToday))]_vars

\* The gate, as the specification words it, rejects a request of token t.
GateFails(t) ==
    \/ t \in {NoHeader, ""}
    \/ ActiveRows(t) = {}
    \/ \E k \in ActiveRows(t) :
          Cardinality(RowsOfDay(t, Today)) >= k.daily_limit

\* C5: a request of a gated operation that fails the gate (401, 403 or 429)
\* changes no business table (no stream inserted or updated, no job inserted,
\* no key) and, in its handler, not the ledger; the step that completes a
\* request changes the ledger and no business table.
C5_GateFailureFrame ==
    [][/\ (HandleStep /\ GateDecided(last')
              /\ (GateFails(last'.req.token) \/ last'.status \in {401, 403, 429}))
          => /\ last'.status \in {401, 403, 429}
             /\ GateFails(last'.req.token)
             /\ UNCHANGED business
             /\ api_usage_log' = api_usage_log
       /\ CompleteStep => UNCHANGED business]_vars

\* C5's case: an update was refused with 429 while a stream is stored.
C5_Witness ==
    /\ last.req.op = "update_revenue_stream"
    /\ last.status = 429
    /\ revenue_streams # <<>>

\* C6: every completed request that carries a token appends exactly one usage
\* row holding the token, the path and the response's status code, whatever
\* the outcome; a request without a token appends none.
C6_OneRowPerRequest ==
    [][/\ CompleteStep =>
             \E e \in BagToSet(inflight) :
                /\ inflight' = inflight (-) SetToBag({e})
                /\ Len(api_usage_log') = Len(api_usage_log) + 1
                /\ SubSeq(api_usage_log', 1, Len(api_usage_log)) = api_usage_log
                /\ LET row == api_usage_log'[Len(api_usage_log')]
                   IN  /\ row.api_key = e.token
                       /\ row.endpoint = e.path
                       /\ row.status_code = e.status
       /\ (HandleStep /\ last'.req.token \in {NoHeader, ""}) =>
             /\ inflight' = inflight
             /\ api_usage_log' = api_usage_log]_vars

\* C7: the usage ledger is append-only: every step keeps the rows it finds,
\* in place and unmodified.
C7_AppendOnly ==
    [][/\ Len(api_usage_log') >= Len(api_usage_log)
       /\ SubSeq(api_usage_log', 1, Len(api_usage_log)) = api_usage_log]_vars

\* C7's case: rows were appended to a ledger that already held a row of the
\* same token.
C7_Witness ==
    /\ Len(api_usage_log) >= 2
    /\ api_usage_log[1].api_key = api_usage_log[2].api_key

\* Emails that do not match the pattern, and emails that do.
InvalidEmails == {EmailShort, EmailNoTld}
ValidEmails == {EmailA, EmailB}

\* A registration request was handled in this step.
RegisterStep == HandleStep /\ last'.req.op = "register"

\* C8 as stated: a registration whose email does not match the pattern fails
\* with 400 and touches no table.
C8_Original ==
    [][(RegisterStep /\ last'.req.email \in InvalidEmails) =>
          /\ last'.status = 400
          /\ UNCHANGED <<api_keys, registration_attempts, api_usage_log>>]_vars

\* C8, amended: a registration whose email does not match the pattern fails
\* as invalid input, with 400 from the pattern check when the email has at
\* least 5 characters and with 422 from request validation when it has fewer,
\* and touches neither the key table, nor the attempt counters, nor the ledger.
C8_InvalidEmailRejected ==
    [][(RegisterStep /\ last'.req.email \in InvalidEmails) =>
          /\ last'.status = IF Len(last'.req.email) >= 5 THEN 400 ELSE 422
          /\ UNCHANGED <<api_keys, registration_attempts, api_usage_log>>]_vars

\* C8's case: an email of five characters with a one-letter TLD was refused
\* with 400 while keys are stored.
C8_Witness ==
    /\ last.req.op = "register"
    /\ last.req.email = EmailNoTld
    /\ last.status = 400
    /\ api_keys # {}

\* Attempts of the address recorded within the last hour.
RecordedAttempts(ip) ==
    Cardinality({i \in DOMAIN registration_attempts[ip] :
                    now - registration_attempts[ip][i] < 3600})

\* The active key rows of an email.
ActiveRowsOfEmail(email) ==
    {k \in api_keys : k.customer_email = email /\ k.subscription_status = "active"}

\* C9 as stated: a registration for an email that has an active key fails with
\* 409, inserts no key and leaves the first token passing the gate.
C9_Original ==
    [][(/\ RegisterStep
        /\ last'.req.email \in ValidEmails
        /\ ActiveRowsOfEmail(last'.req.email) # {}) =>
          /\ last'.status = 409
          /\ api_keys' = api_keys]_vars

\* C9, amended: a registration for an email that has an active key inserts no
\* key and fails: with 429 when the address has 3 attempts recorded within the
\* last hour (the rate check comes first), with 409 otherwise; the first token
\* is unchanged and the gate answers it as before, not with 403.
C9_SecondRegistrationFails ==
    [][(/\ RegisterStep
        /\ last'.req.email \in ValidEmails
        /\ ActiveRowsOfEmail(last'.req.email) # {}) =>
          /\ last'.status = IF RecordedAttempts(last'.req.ip) >= 3 THEN 429 ELSE 409
          /\ api_keys' = api_keys
          /\ \A k \in ActiveRowsOfEmail(last'.req.email) :
                /\ k \in api_keys'
                /\ get_auth(k.api_key)' = get_auth(k.api_key)
                /\ get_auth(k.api_key)'.status \notin {401, 403}]_vars

\* C9's case: the second registration for a self-registered email got 409.
C9_Witness ==
    /\ last.req.op = "register"
    /\ last.status = 409
    /\ \E k \in api_keys : /\ k.customer_email = last.req.email
                           /\ k.tier = "free"
                           /\ get_auth(k.api_key).status = 200

C11_RegistrationInsertsFreeKey ==
    [][RegisterStep =>
          IF last'.status = 200
          THEN \E row \in api_keys' :
                  /\ row \notin api_keys
                  /\ \A k \in api_keys : k.api_key # row.api_key
                  /\ api_keys' = api_keys \cup {row}
                  /\ row.tier = "free"
                  /\ row.daily_limit = 100
                  /\ row.monthly_limit = 3000
                  /\ row.subscription_status = "active"
                  /\ row.customer_email = last'.req.email
                  /\ \E i \in last'.info :
                        /\ i.api_key = row.api_key
                        /\ i.tier = "free"
                        /\ i.daily_limit = 100
          ELSE api_keys' = api_keys]_vars

\* C11's case: a registration succeeded in a store that already held a key,
\* and the token it returned is that of a stored free key.
C11_Witness ==
    /\ last.req.op = "register"
    /\ last.status = 200
    /\ Cardinality(api_keys) = 2
    /\ \E i \in last.info : \E k \in api_keys :
          k.api_key = i.api_key /\ k.tier = "free" /\ k.customer_email = last.req.email

\* A partial update was handled in this step.
UpdateStep == HandleStep /\ last'.req.op = "update_revenue_stream"

\* The update supplies none of the four fields.
SuppliesNothing(u) ==
    /\ u.monthly_revenue = {} /\ u.potential_monthly = {}
    /\ u.growth_rate = {} /\ u.notes = {}

\* The three numeric fields of a partial update.
NumericFields == {"monthly_revenue", "potential_monthly", "growth_rate"}

\* The modelled note texts as html.escape leaves them.
EscapedNotes(text) ==
    IF text = <<">">> THEN <<"&", "g", "t", ";">>
    ELSE IF text = <<"&">> THEN <<"&", "a", "m", "p", ";">>
    ELSE text

\* What C12 requires of a successful update apart from the notes it stores.
UpdateTouchesOnlySupplied(id, u) ==
    /\ id \in DOMAIN revenue_streams
    /\ Len(revenue_streams') = Len(revenue_streams)
    /\ \A i \in DOMAIN revenue_streams :
          i # id => revenue_streams'[i] = revenue_streams[i]
    /\ revenue_streams'[id].name = revenue_streams[id].name
    /\ revenue_streams'[id].category = revenue_streams[id].category
    /\ \A f \in NumericFields :
          revenue_streams'[id][f] =
             IF u[f] = {} THEN revenue_streams[id][f] ELSE CHOOSE v \in u[f] : TRUE
    /\ u.notes = {} => revenue_streams'[id].notes = revenue_streams[id].notes

C13_UpdateErrors ==
    [][(/\ UpdateStep
        /\ ~GateFails(last'.req.token)
        /\ RevenueStreamUpdateOk(last'.req.update)) =>
          LET id == last'.req.stream_id
              u == last'.req.update
          IN  /\ SuppliesNothing(u) =>
                    last'.status = 400 /\ revenue_streams' = revenue_streams
              /\ (~SuppliesNothing(u) /\ id \notin DOMAIN revenue_streams) =>
                    last'.status = 404 /\ revenue_streams' = revenue_streams
              /\ last'.status \in {400, 404} =>
                    SuppliesNothing(u) \/ id \notin DOMAIN revenue_streams]_vars

\* C13's case: with a stream stored, an update for an unknown identifier got
\* 404 and the stream is as it was created.
C13_Witness ==
    /\ last.req.op = "update_revenue_stream"
    /\ last.status = 404
    /\ Len(revenue_streams) = 1
    /\ last.req.stream_id = 2
    /\ revenue_streams[1].monthly_revenue = 500

\* The total of a column of the revenue-stream store, up to row n.
RECURSIVE ColumnTotal(_, _)
ColumnTotal(n, col) ==
    IF n = 0 THEN 0 ELSE ColumnTotal(n - 1, col) + revenue_streams[n][col]

C15_StreamInvariant ==
    /\ [](\A i \in DOMAIN revenue_streams :
            /\ revenue_streams[i].category \in {"api", "product", "service", "consulting"}
            /\ revenue_streams[i].monthly_revenue >= 0
            /\ revenue_streams[i].potential_monthly >= 0)
    /\ [][/\ Len(revenue_streams') >= Len(revenue_streams)
          /\ \A i \in DOMAIN revenue_streams :
                /\ revenue_streams'[i].name = revenue_streams[i].name
                /\ revenue_streams'[i].category = revenue_streams[i].category]_vars
    /\ [][(/\ HandleStep
           /\ last'.req.op = "create_revenue_stream"
           /\ ~GateFails(last'.req.token)
           /\ RevenueStreamOk(last'.req.stream)
           /\ last'.req.stream.category
                 \notin {"api", "product", "service", "consulting"}) =>
             /\ last'.status = 400
             /\ revenue_streams' = revenue_streams]_vars

\* C15's case: with a stream stored, a create of category crypto was refused.
C15_Witness ==
    /\ last.req.op = "create_revenue_stream"
    /\ last.req.stream.category = "crypto"
    /\ last.status = 400
    /\ Len(revenue_streams) = 1

\* C16: the combined dashboard (of a request the gate admits) never fails
\* whatever the state of the secondary aggregate store; when that store is
\* missing or unreadable its contributions are zero; combined_total_revenue =
\* streams monthly sum + transactions total + secondary stripe sum + secondary
\* usdc sum, and the gap = streams potential sum - streams monthly sum.
C16_DashboardTolerant ==
    [][(/\ HandleStep
        /\ last'.req.op = "get_revenue_dashboard"
        /\ ~GateFails(last'.req.token)) =>
          LET n == Len(revenue_streams)
          IN  /\ last'.status = 200
              /\ Cardinality(last'.info) = 1
              /\ \A r \in last'.info :
                    /\ last'.req.agg.state # "ok" =>
                          r.stripe_gbp = 0 /\ r.usdc = 0 /\ r.days_recorded = 0
                    /\ r.monthly_revenue = ColumnTotal(n, "monthly_revenue")
                    /\ r.combined_total_revenue =
                          ColumnTotal(n, "monthly_revenue") + r.transactions_total
                             + r.stripe_gbp + r.usdc
                    /\ r.revenue_gap = ColumnTotal(n, "potential_monthly")
                                          - ColumnTotal(n, "monthly_revenue")]_vars


(* ------------------------------- webhooks ------------------------------ *)

\* This step is one of the two webhook handlers answering a delivery.
WebhookStep == HandleStep /\ last'.req.op \in {"stripe_webhook", "payment_webhook"}
\* This step is the main service's webhook answering a delivery that its
\* configuration and construct_event let through.
VerifiedStep ==
    /\ HandleStep /\ last'.req.op = "stripe_webhook"
    /\ last'.req.configured
    /\ last'.req.event.signature = "signed" /\ last'.req.event.payload_ok
\* ... and the event is a completed checkout.
CheckoutStep == VerifiedStep /\ last'.req.event.type = "checkout.session.completed"

\* C17: a delivery whose signature header is missing or does not verify is
\* rejected (400; 503 by a main service without Stripe secrets) and leaves
\* the keys, the subscription records and the payment rows as they were, in
\* both webhook handlers.
C17_UnverifiedRejected ==
    [][(WebhookStep /\ last'.req.event.signature # "signed") =>
          /\ last'.status = (IF last'.req.configured THEN 400 ELSE 503)
          /\ ~last'.raised
          /\ UNCHANGED <<api_keys, dashboard_subscriptions, payments>>]_vars
\* A forged payment event has been rejected by the payment service while a
\* payment row and a subscription record were stored.
C17_Witness ==
    /\ last.req.op = "payment_webhook" /\ last.req.event.signature = "forged"
    /\ last.status = 400
    /\ payments # <<>> /\ dashboard_subscriptions # <<>>

\* The token of the first INSERT is taken: the INSERT raises IntegrityError.
FirstCollides ==
    /\ emailSentCols
    /\ \E k \in api_keys : k.api_key = last'.req.minted[1]
\* The price identifier of a checkout session as the specification words
\* it: the first line item's when there is one, else the metadata's.
FirstItemElseMetadata(session) ==
    IF session.line_items # <<>> /\ Head(session.line_items) # None
    THEN Head(session.line_items)
    ELSE session.metadata_price
\* The price of the checkout is not the dashboard's, so a key is to be minted.
MintsKey ==
    FirstItemElseMetadata(last'.req.event.object) # Some("price_1T1MFxLnWY7IoSqmd8R3pGJV")

\* C18: when the first minted token collides, the handler retries once with
\* a second token; when that collides too, the event is still acknowledged
\* (200, nothing raised) and no key is stored.
C18_RetryThenAcknowledge ==
    [][(CheckoutStep /\ MintsKey /\ FirstCollides) =>
          IF \E k \in api_keys : k.api_key = last'.req.minted[2]
          THEN last'.status = 200 /\ ~last'.raised /\ api_keys' = api_keys
          ELSE /\ last'.status = 200
               /\ \E k \in api_keys' \ api_keys :
                     /\ k.api_key = last'.req.minted[2]
                     /\ api_keys' = api_keys \cup {k}]_vars

\* C19: the main service's webhook answers every verified delivery with
\* success, whatever becomes of the inserts.
C19_VerifiedAlwaysSucceeds ==
    [][VerifiedStep => (last'.status = 200 /\ ~last'.raised)]_vars

\* The tier C20 names for a price identifier.
C20_Tier(price_id) ==
    IF price_id = Some("price_1SzPtMLnWY7IoSqm83uF3GM0") THEN "pro"
    ELSE IF price_id = Some("price_1T0LN1LnWY7IoSqmOIELPsqF") THEN "revenue_api"
    ELSE "basic"
\* The daily limit C20 names for a tier.
C20_Daily(tier) ==
    IF tier = "pro" THEN 10000 ELSE IF tier = "revenue_api" THEN 5000 ELSE 1000

C21_OtherEventsAcknowledged ==
    [][(VerifiedStep /\ last'.req.event.type # "checkout.session.completed") =>
          /\ last'.status = 200 /\ ~last'.raised
          /\ last'.detail = "received"
          /\ UNCHANGED <<api_keys, dashboard_subscriptions, payments,
                         api_usage_log, revenue_streams, price_monitor_jobs>>]_vars
\* The main service has acknowledged a verified invoice event while it
\* stored keys.
C21_Witness ==
    /\ last.req.op = "stripe_webhook" /\ last.req.configured
    /\ last.req.event.signature = "signed" /\ last.req.event.payload_ok
    /\ last.req.event.type = "invoice.paid"
    /\ last.status = 200
    /\ api_keys # {}

(* ----------------------------- key lifecycle --------------------------- *)

\* The tokens of a set of key rows.
TokensOf(rows) == {k.api_key : k \in rows}

\* C23: self-registration, admin key creation and the webhook remove no key
\* row and change none (every row stays, with its token); a row they add
\* carries a token no stored row has and the status active; and every stored
\* key has status active or revoked.
C23_KeysOnlyAdded ==
    /\ [](\A k \in api_keys : k.subscription_status \in {"active", "revoked"})
    /\ [][/\ api_keys \subseteq api_keys'
          /\ \A k \in api_keys' \ api_keys :
                /\ k.api_key \notin TokensOf(api_keys)
                /\ k.subscription_status = "active"
          /\ Cardinality(TokensOf(api_keys')) = Cardinality(api_keys')]_vars
\* A revoked key is stored next to a key that the admin endpoint or the
\* webhook created after it (a paid tier with that tier's limit).
C23_Witness ==
    /\ last.req.op \in {"admin_create_key", "stripe_webhook"}
    /\ last.status = 200
    /\ \E k \in api_keys : k.subscription_status = "revoked"
    /\ \E k \in api_keys : k.subscription_status = "active" /\ k.daily_limit >= 1000

\* C25: a verified completed checkout for the dashboard price appends exactly
\* one subscription record (email, price, session id, status active) and
\* mints no key; any other verified completed checkout that is answered with
\* success adds exactly one key, active, and no subscription record.
C25_SubscriptionOrKey ==
    [][CheckoutStep =>
          LET session == last'.req.event.object
          IN  IF ~MintsKey
              THEN /\ last'.status = 200
                   /\ dashboard_subscriptions' =
                         Append(dashboard_subscriptions,
                                [customer_email |-> session.customer_email,
                                 price_id |-> "price_1T1MFxLnWY7IoSqmd8R3pGJV",
                                 stripe_session_id |-> session.id,
                                 status |-> "active"])
                   /\ api_keys' = api_keys
              ELSE /\ dashboard_subscriptions' = dashboard_subscriptions
                   /\ last'.status = 200 =>
                         /\ api_keys \subseteq api_keys'
                         /\ Cardinality(api_keys' \ api_keys) = 1
                         /\ \A k \in api_keys' \ api_keys :
                               k.subscription_status = "active"]_vars
\* The webhook has minted a key for one checkout and, last, stored the
\* subscription record of a checkout for the dashboard price.
C25_Witness ==
    /\ last.req.op = "stripe_webhook" /\ last.status = 200
    /\ last.detail = "dashboard_subscription_created"
    /\ Len(dashboard_subscriptions) = 1
    /\ dashboard_subscriptions[1].stripe_session_id = "cs_5"
    /\ \E k \in api_keys : k.daily_limit >= 1000

\* This step is the payment service's webhook answering a delivery that
\* construct_event let through.
PaymentVerifiedStep ==
    /\ HandleStep /\ last'.req.op = "payment_webhook"
    /\ last'.req.event.signature = "signed" /\ last'.req.event.payload_ok

\* The payment rows with the status of the rows of one intent set.
WithStatusOf(rows, id, status) ==
    [i \in DOMAIN rows |->
        IF rows[i].payment_intent_id = id
        THEN [payment_intent_id |-> id, status |-> status]
        ELSE rows[i]]

\* C26: the payment service's webhook acknowledges every verified event
\* (200, received), also when its database fails it; it changes nothing but
\* the status of the payment rows of the event's intent, to succeeded or to
\* failed according to the event's type, and never touches keys or
\* subscription records.
C26_PaymentWebhookAcknowledges ==
    [][PaymentVerifiedStep =>
          LET event == last'.req.event
          IN  /\ last'.status = 200 /\ ~last'.raised /\ last'.detail = "received"
              /\ UNCHANGED <<api_keys, dashboard_subscriptions>>
              /\ \/ payments' = payments
                 \/ /\ event.type = "payment_intent.succeeded"
                    /\ payments' = WithStatusOf(payments, event.object.id, "succeeded")
                 \/ /\ event.type = "payment_intent.payment_failed"
                    /\ payments' = WithStatusOf(payments, event.object.id, "failed")]_vars

(* --------------------------- the gate over time ------------------------ *)

\* The ledger holds a 429 answered to token t on the current UTC day.
RateLimitedToday(t) ==
    \E i \in DOMAIN api_usage_log :
        /\ api_usage_log[i].api_key = t
        /\ api_usage_log[i].status_code = 429
        /\ UTCDate(api_usage_log[i].created_at) = UTCToday

\* C27: rate limiting is sticky within a (UTC) day: once a request of an
\* active token was answered 429 and logged, every later request of the
\* token on the same day is answered 429 too (key rows never change here).
C27_StickyWithinDay ==
    [][(/\ HandleStep /\ GateDecided(last')
        /\ ActiveRows(last'.req.token) # {}
        /\ RateLimitedToday(last'.req.token))
          => last'.status = 429]_vars

\* The gate's answer to token t worked out from nothing but the active key
\* row of t and the usage rows that hold t (and the date the gate reads).
OwnRowsDecision(t) ==
    IF ActiveRows(t) = {} THEN 403
    ELSE IF \E k \in ActiveRows(t) :
               Cardinality(RowsOfDay(t, Today)) >= k.daily_limit
    THEN 429
    ELSE 200

\* This step handles or completes a request that carries a header other
\* than token t, and the clock stands still.
OtherTokenStep(t) ==
    /\ now' = now
    /\ HandleStep \/ CompleteStep
    /\ HandleStep => last'.req.token # t
    /\ CompleteStep =>
          \A e \in BagToSet(inflight) :
              inflight' = inflight (-) SetToBag({e}) => e.token # t

\* C28: quota accounting is isolated per token: the gate's answer to a token
\* is a function of that token's key row and of the usage rows that hold the
\* token, and no request made with another header (a valid token or not)
\* changes it.
C28_QuotaIsolation ==
    /\ [](\A t \in Tokens : get_auth(t).status = OwnRowsDecision(t))
    /\ [][\A t \in Tokens : OtherTokenStep(t) => get_auth(t)' = get_auth(t)]_vars
\* Token sk_1 is rate-limited while a request of sk_2, which has a usage row
\* of its own, has just been admitted.
C28_Witness ==
    /\ last.req.token = "sk_2" /\ last.status = 200
    /\ get_auth("sk_1").status = 429
    /\ \E i \in DOMAIN api_usage_log : api_usage_log[i].api_key = "sk_2"
    /\ \E i \in DOMAIN api_usage_log : api_usage_log[i].api_key = "sk_1"

(* ------------------------ registration attempts ------------------------ *)

\* The timestamps of an address that are less than 3600 seconds old.
WithinWindow(ip) ==
    SelectSeq(registration_attempts[ip], LAMBDA t : now - t < 3600)

\* C29: a registration refused by the per-address cap records no timestamp;
\* one that passes the cap records exactly one (the current time), whatever
\* becomes of it afterwards (success, Conflict, store error); one with an
\* invalid email records none and leaves the record as it is.  So an address
\* is refused exactly while 3 of its recorded timestamps are less than 3600
\* seconds old, and is admitted again once the oldest of 3 is 3600 seconds
\* old, however often it was refused in between.
C29_AttemptsRecorded ==
    [][RegisterStep =>
          LET ip == last'.req.ip
          IN  /\ \A a \in Addresses \ {ip} :
                    registration_attempts'[a] = registration_attempts[a]
              /\ last'.req.email \in InvalidEmails =>
                    /\ registration_attempts' = registration_attempts
                    /\ last'.status \in {400, 422}
              /\ last'.req.email \in ValidEmails =>
                    /\ (last'.status = 429) <=> (Len(WithinWindow(ip)) >= 3)
                    /\ registration_attempts'[ip] =
                          IF Len(WithinWindow(ip)) >= 3
                          THEN WithinWindow(ip)
                          ELSE Append(WithinWindow(ip), now)]_vars
\* An address with an attempt at 23:00 and two at 23:30, refused from then
\* on, has been admitted again at 24:00, 3600 seconds after its oldest
\* attempt, and the attempt ended in Conflict or a store error.
C29_Witness ==
    /\ last.req.op = "register" /\ last.status \in {409, 500}
    /\ now = StartClock + 3600
    /\ registration_attempts[last.req.ip] =
          <<StartClock + 1800, StartClock + 1800, StartClock + 3600>>

\* C24: self-registration never leaves an email with two active keys, also
\* when two registrations for the email run at once (in a store that starts
\* without keys and is written by self-registration only).
C24_OneActiveKeyPerEmail ==
    \A email \in ValidEmails : Cardinality(ActiveRowsOfEmail(email)) <= 1

(* -------------------------------- listings ----------------------------- *)

\* This step is one of the two market listings answering with rows.
MarketsStep ==
    /\ HandleStep /\ last'.req.op \in {"get_polymarket_markets", "get_markets"}
    /\ last'.status = 200
\* The rows a listing answered with.
Returned(r) == LET body == CHOOSE b \in r.info : TRUE IN body.rows

\* C22: a market listing asked with active_only = true returns only stored
\* rows, and none whose stored active flag is false (0): every row it
\* returns has the flag 1; for every category filter and every limit, in
\* the main service and in the standalone service.
C22_ActiveOnly ==
    [][(MarketsStep /\ last'.req.active_only) =>
          LET stored == {polymarket_markets[j] : j \in DOMAIN polymarket_markets}
              rows == Returned(last')
          IN  \A i \in DOMAIN rows :
                  /\ rows[i] \in stored
                  /\ rows[i].active # Some(0)
                  /\ rows[i].active = Some(1)]_vars
\* The standalone service has listed, with a category filter and without a
\* bound on the number of rows, the active rows of a table that holds
\* inactive rows of that category too.
C22_Witness ==
    /\ last.req.op = "get_markets" /\ last.status = 200
    /\ last.req.active_only /\ last.req.category = Some("politics")
    /\ last.req.limit < 0
    /\ Len(Returned(last)) >= 1
    /\ \E j \in DOMAIN polymarket_markets :
          /\ polymarket_markets[j].active = Some(0)
          /\ polymarket_markets[j].category = Some("politics")

\* C30: whatever the limit parameter, the main service's market listing
\* returns at most 100 rows and its learnings listing at most 50.
C30_ListingsCapped ==
    [][(HandleStep /\ last'.status = 200) =>
          /\ last'.req.op = "get_polymarket_markets" => Len(Returned(last')) <= 100
          /\ last'.req.op = "brain_learnings" => Len(Returned(last')) <= 50]_vars

====
